---------------------------- MODULE Spec2Model ----------------------------
(***************************************************************************)
(* A model of the haschain node: the snapshotting world state              *)
(* (src/src/evm/worldState.ts, src/src/evm/levelDbWorldState.ts), the      *)
(* virtual machine (src/src/evm/core.ts, src/src/evm/opcodes.ts), the      *)
(* transaction executor (src/src/evm/transaction.ts), the transaction pool *)
(* (src/src/pool/txPool.ts) and the block processor                        *)
(* (src/src/blockchain/utils.ts).                                          *)
(*                                                                         *)
(* JavaScript Maps are functions whose DOMAIN is the key set.  Objects     *)
(* that the code shares by reference (the account objects and the inner    *)
(* storage maps that revert() hands from a snapshot to the live state) are *)
(* tracked by sharedWith / sharedAccts / sharedStors so that an in-place   *)
(* mutation reaches every holder of the object.                            *)
(***************************************************************************)
EXTENDS Integers, Sequences, FiniteSets, TLC

VARIABLES world, pre, last, snapObs, steps, pool, prePool, clock, mined,
          consensus, storage, isInitialized, preChain, vm

vars == <<world, pre, last, snapObs, steps, pool, prePool, clock, mined,
          consensus, storage, isInitialized, preChain, vm>>

\* The consensus engine, the block storage and the manager's flag, with
\* their values before the last operation; vm is the execution of the
\* virtual machine that is under way, for the specification that follows
\* Evm.execute instruction by instruction.
chainVars == <<consensus, storage, isInitialized, preChain, vm>>

\* The specifications of the world state, the executor and the pool run
\* without a chain.
NoChain ==
  /\ consensus = <<>>
  /\ storage = <<>>
  /\ isInitialized = FALSE
  /\ preChain = <<>>
  /\ vm = <<>>

(***************************************************************************)
(* Bounds of the model                                                     *)
(***************************************************************************)
MaxWorldOps == 4
MaxSnapshots == 2
MaxTxs == 2
MaxNodeOps == 3
MaxMixedOps == 3
MaxClock == 1

(***************************************************************************)
(* Map helpers (Map.set, Map.delete, Map.has)                              *)
(***************************************************************************)
EmptyMap == <<>>

Put(m, k, v) == [x \in (DOMAIN m) \cup {k} |-> IF x = k THEN v ELSE m[x]]

Del(m, k) == [x \in (DOMAIN m) \ {k} |-> m[x]]

Restrict(m, S) == [x \in (DOMAIN m) \cap S |-> m[x]]

(***************************************************************************)
(* Addresses.  NullAddr is the `null` recipient of a creation.  A contract *)
(* address is a hash of (sender, nonce); the hash is taken to be injective *)
(* and to miss the externally owned addresses.                             *)
(***************************************************************************)
NullAddr == 0

Alice == 1

Bob == 2

Carol == 3

StoreContract == 4

RevertContract == 5

generateContractAddress(sender, nonce) == 10 * sender + nonce

Slots == {0, 1}

(***************************************************************************)
(* World state                                                             *)
(***************************************************************************)
NewAccount == [nonce |-> 0, balance |-> 0, code |-> <<>>]

NewWorld(impl) ==
  [impl |-> impl, accounts |-> EmptyMap, storages |-> EmptyMap,
   snapshots |-> EmptyMap, nextSnapshotId |-> 1, currentSnapshotId |-> 0,
   sharedWith |-> 0, sharedAccts |-> {}, sharedStors |-> {}]

accountExists(W, a) == a \in DOMAIN W.accounts

getAccount(W, a) == IF a \in DOMAIN W.accounts THEN W.accounts[a] ELSE NewAccount

getBalance(W, a) == IF a \in DOMAIN W.accounts THEN W.accounts[a].balance ELSE 0

getNonce(W, a) == IF a \in DOMAIN W.accounts THEN W.accounts[a].nonce ELSE 0

getCode(W, a) == IF a \in DOMAIN W.accounts THEN W.accounts[a].code ELSE <<>>

getStorage(W, a, k) ==
  IF a \in DOMAIN W.storages /\ k \in DOMAIN W.storages[a]
  THEN W.storages[a][k] ELSE 0

\* putAccount called with an object the world does not hold yet.
\* InMemoryWorldState stores a copy, LevelDBWorldState the object itself;
\* either way the stored object is shared with no snapshot.
putAccount(W, a, acct) ==
  [W EXCEPT !.accounts = Put(@, a, acct), !.sharedAccts = @ \ {a}]

\* The pattern of addBalance, subBalance, incrementNonce, setNonce, setCode:
\* getAccount returns the stored object, the field is assigned in place, and
\* putAccount stores the object (a copy of it in InMemoryWorldState).
MutateAccount(W, a, new) ==
  LET existed == a \in DOMAIN W.accounts
      inSnap  == /\ existed
                 /\ a \in W.sharedAccts
                 /\ W.sharedWith \in DOMAIN W.snapshots
                 /\ a \in DOMAIN W.snapshots[W.sharedWith].accounts
  IN [W EXCEPT
        !.accounts = Put(@, a, new),
        !.snapshots = IF inSnap
                      THEN [@ EXCEPT ![W.sharedWith].accounts[a] = new]
                      ELSE @,
        !.sharedAccts = IF W.impl = "mem" \/ ~existed THEN @ \ {a} ELSE @]

addBalance(W, a, amount) ==
  IF amount = 0 THEN W
  ELSE MutateAccount(W, a, [getAccount(W, a) EXCEPT !.balance = @ + amount])

\* subBalance as it would be without the balance check.
subBalanceUnchecked(W, a, amount) ==
  IF amount = 0 THEN [ok |-> TRUE, w |-> W]
  ELSE [ok |-> TRUE,
        w |-> MutateAccount(W, a, [getAccount(W, a) EXCEPT !.balance = @ - amount])]

\* subBalance throws 'Insufficient balance': ok = FALSE, world untouched.
subBalance(W, a, amount) ==
  IF amount = 0 THEN [ok |-> TRUE, w |-> W]
  ELSE IF ~accountExists(W, a) \/ getBalance(W, a) < amount
       THEN [ok |-> FALSE, w |-> W]
       ELSE [ok |-> TRUE,
             w |-> MutateAccount(W, a, [getAccount(W, a) EXCEPT !.balance = @ - amount])]

\* incrementNonce as it would be if the increment were lost.
incrementNonceLost(W, a) == MutateAccount(W, a, getAccount(W, a))

incrementNonce(W, a) ==
  MutateAccount(W, a, [getAccount(W, a) EXCEPT !.nonce = @ + 1])

setNonce(W, a, n) ==
  MutateAccount(W, a, [getAccount(W, a) EXCEPT !.nonce = n])

setCode(W, a, code) ==
  MutateAccount(W, a, [getAccount(W, a) EXCEPT !.code = code])

\* setStorage creates the inner map when missing and then writes or deletes
\* the slot in place; the inner map object is never replaced.
setStorage(W, a, k, v) ==
  LET had   == a \in DOMAIN W.storages
      inner == IF had THEN W.storages[a] ELSE EmptyMap
      new   == IF v = 0 THEN Del(inner, k) ELSE Put(inner, k, v)
      inSnap == /\ had
                /\ a \in W.sharedStors
                /\ W.sharedWith \in DOMAIN W.snapshots
                /\ a \in DOMAIN W.snapshots[W.sharedWith].storages
  IN [W EXCEPT
        !.storages = Put(@, a, new),
        !.snapshots = IF inSnap
                      THEN [@ EXCEPT ![W.sharedWith].storages[a] = new]
                      ELSE @,
        !.sharedStors = IF had THEN @ ELSE @ \ {a}]

\* snapshot() copies every account object and every inner storage map.
snapshot(W) ==
  LET id == W.nextSnapshotId
  IN [id |-> id,
      w |-> [W EXCEPT
               !.nextSnapshotId = id + 1,
               !.snapshots = Put(@, id, [accounts |-> W.accounts,
                                         storages |-> W.storages,
                                         nextSnapshotId |-> id + 1]),
               !.currentSnapshotId = id]]

\* revert as it would be if the storage maps were left out of the restore.
revertAccountsOnly(W, id) ==
  IF id \notin DOMAIN W.snapshots THEN [ok |-> FALSE, w |-> W]
  ELSE LET s == W.snapshots[id]
       IN [ok |-> TRUE,
           w |-> [W EXCEPT
                    !.accounts = s.accounts,
                    !.nextSnapshotId = s.nextSnapshotId,
                    !.snapshots = Restrict(@, {i \in DOMAIN @ : i <= id}),
                    !.currentSnapshotId = id,
                    !.sharedWith = id,
                    !.sharedAccts = DOMAIN s.accounts]]

\* revert(id) copies the two outer maps only: the live state now holds the
\* snapshot's own account objects and inner storage maps.
revert(W, id) ==
  IF id \notin DOMAIN W.snapshots THEN [ok |-> FALSE, w |-> W]
  ELSE LET s == W.snapshots[id]
       IN [ok |-> TRUE,
           w |-> [W EXCEPT
                    !.accounts = s.accounts,
                    !.storages = s.storages,
                    !.nextSnapshotId = s.nextSnapshotId,
                    !.snapshots = Restrict(@, {i \in DOMAIN @ : i <= id}),
                    !.currentSnapshotId = id,
                    !.sharedWith = id,
                    !.sharedAccts = DOMAIN s.accounts,
                    !.sharedStors = DOMAIN s.storages]]

\* A commit that discards every checkpoint, the outer ones included.
commitDiscardingAll(W, id) ==
  [W EXCEPT !.snapshots = EmptyMap, !.currentSnapshotId = 0]

\* commit(id): id = 0 stands for the call without an argument.
commit(W, id) ==
  IF id # 0
  THEN [W EXCEPT !.snapshots = Restrict(@, {i \in DOMAIN @ : i < id})]
  ELSE IF W.currentSnapshotId # 0
       THEN [W EXCEPT !.snapshots = Del(@, W.currentSnapshotId),
                      !.currentSnapshotId = 0]
       ELSE W

\* What a caller can observe of the world: accounts and storage slots.
AllAddrs(W) == (DOMAIN W.accounts) \cup (DOMAIN W.storages)

SameWorld(W1, W2) ==
  /\ W1.accounts = W2.accounts
  /\ \A a \in AllAddrs(W1) \cup AllAddrs(W2) :
       \A k \in Slots : getStorage(W1, a, k) = getStorage(W2, a, k)

(***************************************************************************)
(* Virtual machine.  ctx is the ExecutionContext; the stack's top is its   *)
(* last element; pc counts from 0 as in the code.  A handler returns       *)
(* [thrown, ctx]: thrown = TRUE is a JavaScript exception, caught by       *)
(* Evm.execute, with ctx as it was when the exception left the handler.    *)
(* The programs of this model use the opcodes below and the unassigned     *)
(* byte 0xfe.                                                              *)
(***************************************************************************)
OP_STOP == 0

OP_ADD == 1

OP_MUL == 2

OP_SUB == 3

OP_DIV == 4

OP_MOD == 6

OP_EXP == 10

OP_CALLDATACOPY == 55

OP_CODECOPY == 57

OP_POP == 80

OP_SLOAD == 84

OP_SSTORE == 85

OP_JUMP == 86

OP_JUMPI == 87

OP_JUMPDEST == 91

OP_PUSH1 == 96

OP_RETURN == 243

OP_REVERT == 253

OP_INVALID == 254

ArithmeticOpcodes == {OP_ADD, OP_MUL, OP_SUB, OP_DIV, OP_MOD, OP_EXP}

ModelledOpcodes == {OP_STOP, OP_CODECOPY, OP_POP, OP_SLOAD, OP_SSTORE, OP_JUMP,
                    OP_JUMPI, OP_JUMPDEST, OP_PUSH1, OP_RETURN, OP_REVERT,
                    OP_CALLDATACOPY}
                     \cup ArithmeticOpcodes

\* A gas schedule in which no instruction costs anything.
GasFree(op) == 0

GAS_COSTS(op) ==
  CASE op = OP_STOP -> 0
    [] op = OP_ADD -> 3
    [] op = OP_MUL -> 5
    [] op = OP_SUB -> 3
    [] op = OP_DIV -> 5
    [] op = OP_MOD -> 5
    [] op = OP_EXP -> 10
    [] op = OP_CALLDATACOPY -> 3
    [] op = OP_CODECOPY -> 3
    [] op = OP_POP -> 2
    [] op = OP_SLOAD -> 50
    [] op = OP_SSTORE -> 20000
    [] op = OP_JUMP -> 8
    [] op = OP_JUMPI -> 10
    [] op = OP_JUMPDEST -> 1
    [] op = OP_PUSH1 -> 3
    [] op = OP_RETURN -> 0
    [] op = OP_REVERT -> 0

StackLimit == 1024

\* The width of a Word, scaled down from 256 bits, and 1n << 256n.
WordBits == 8

WordModulus == 2 ^ WordBits

Min(a, b) == IF a < b THEN a ELSE b

Zeros(n) == [i \in 1..n |-> 0]

\* Uint8Array.slice(from, to) on a 0-based array
Slice(s, from, to) ==
  LET e == Min(to, Len(s))
  IN IF from >= e THEN <<>> ELSE SubSeq(s, from + 1, e)

NewContext(code, W, env, gasLimit, calldata) ==
  [code |-> code, pc |-> 0, stack |-> <<>>, memory |-> <<>>,
   gasLeft |-> gasLimit, returnData |-> <<>>, calldata |-> calldata,
   w |-> W, env |-> env, stopped |-> FALSE, reverted |-> FALSE, err |-> "none"]

Throw(ctx, e) == [thrown |-> TRUE, ctx |-> [ctx EXCEPT !.err = e]]

Done(ctx) == [thrown |-> FALSE, ctx |-> ctx]

Peek(ctx, i) == ctx.stack[Len(ctx.stack) - i]

Drop(ctx, n) == [ctx EXCEPT !.stack = SubSeq(@, 1, Len(@) - n)]

push(ctx, v) ==
  IF Len(ctx.stack) >= StackLimit THEN Throw(ctx, "stack overflow")
  ELSE IF v < 0 \/ v > WordModulus - 1 THEN Throw(ctx, "invalid stack value")
  ELSE Done([ctx EXCEPT !.stack = Append(@, v)])

\* readMemory and writeMemory grow the memory to cover the range touched.
Expand(mem, size) == IF Len(mem) < size THEN mem \o Zeros(size - Len(mem)) ELSE mem

readMemory(ctx, offset, size) ==
  IF size = 0 THEN [data |-> <<>>, ctx |-> ctx]
  ELSE LET m == Expand(ctx.memory, offset + size)
       IN [data |-> SubSeq(m, offset + 1, offset + size),
           ctx |-> [ctx EXCEPT !.memory = m]]

writeMemory(ctx, offset, data) ==
  IF Len(data) = 0 THEN ctx
  ELSE LET m == Expand(ctx.memory, offset + Len(data))
       IN [ctx EXCEPT !.memory =
             [i \in 1..Len(m) |->
                IF i > offset /\ i <= offset + Len(data) THEN data[i - offset]
                ELSE m[i]]]

jump(ctx, destination) ==
  IF destination < 0 \/ destination >= Len(ctx.code)
  THEN Throw(ctx, "invalid jump")
  ELSE IF ctx.code[destination + 1] # OP_JUMPDEST
       THEN Throw(ctx, "invalid jump")
       ELSE Done([ctx EXCEPT !.pc = destination])

\* readCalldata(offset, size): the bytes of the calldata in the range, none
\* when the offset lies beyond its end.
readCalldata(ctx, offset, size) ==
  IF offset >= Len(ctx.calldata) THEN <<>>
  ELSE Slice(ctx.calldata, offset, Min(offset + size, Len(ctx.calldata)))

\* The loop of expmod(base, exponent, modulus): square and multiply.
RECURSIVE expmodLoop(_, _, _, _)
expmodLoop(result, b, e, modulus) ==
  IF e <= 0 THEN result
  ELSE expmodLoop(IF e % 2 = 1 THEN (result * b) % modulus ELSE result,
                  (b * b) % modulus, e \div 2, modulus)

expmod(base, exponent, modulus) ==
  IF modulus = 1 THEN 0
  ELSE expmodLoop(1, base % modulus, exponent, modulus)

\* x & ((1n << 256n) - 1n) on a bigint of either sign: the residue of x.
Mask(x) == x % WordModulus

\* The arithmetic handlers with the mask left out.
arithUnmasked(op, a, b) ==
  CASE op = OP_ADD -> a + b
    [] op = OP_MUL -> a * b
    [] op = OP_SUB -> a - b
    [] op = OP_DIV -> IF b = 0 THEN 0 ELSE a \div b
    [] op = OP_MOD -> IF b = 0 THEN 0 ELSE a % b
    [] op = OP_EXP -> expmod(a, b, WordModulus)

\* The value that the handlers of ADD, MUL, SUB, DIV, MOD and EXP push, a
\* being the first word popped and b the second.
arith(op, a, b) ==
  CASE op = OP_ADD -> Mask(a + b)
    [] op = OP_MUL -> Mask(a * b)
    [] op = OP_SUB -> Mask(a - b)
    [] op = OP_DIV -> IF b = 0 THEN 0 ELSE a \div b
    [] op = OP_MOD -> IF b = 0 THEN 0 ELSE a % b
    [] op = OP_EXP -> expmod(a, b, WordModulus)

\* An SSTORE that writes to the caller's storage.
sstoreToCaller(c) ==
  [Drop(c, 2) EXCEPT
     !.w = setStorage(c.w, c.env.caller, Peek(c, 0), Peek(c, 1))]

\* The SSTORE handler after its gas was charged.
sstore(c) ==
  [Drop(c, 2) EXCEPT
     !.w = setStorage(c.w, c.env.address, Peek(c, 0), Peek(c, 1))]

\* The CALLDATACOPY handler after its gas was charged: destOffset, offset
\* and size are popped in this order.
calldatacopy(c) ==
  writeMemory(Drop(c, 3), Peek(c, 0), readCalldata(c, Peek(c, 1), Peek(c, 2)))

\* The body of an opcode handler after ctx.useGas and after its operands
\* were found on the stack (n of them, c is the charged context).
HandlerBody(c, op) ==
  CASE op = OP_STOP -> Done([c EXCEPT !.returnData = <<>>, !.stopped = TRUE])
    [] op = OP_POP -> Done(Drop(c, 1))
    [] op = OP_JUMPDEST -> Done(c)
    [] op = OP_SLOAD ->
         push(Drop(c, 1), getStorage(c.w, c.env.address, Peek(c, 0)))
    [] op = OP_SSTORE -> Done(sstore(c))
    [] op \in ArithmeticOpcodes ->
         push(Drop(c, 2), arith(op, Peek(c, 0), Peek(c, 1)))
    [] op = OP_CALLDATACOPY -> Done(calldatacopy(c))
    [] op = OP_JUMP -> jump(Drop(c, 1), Peek(c, 0))
    [] op = OP_JUMPI ->
         IF Peek(c, 1) # 0 THEN jump(Drop(c, 2), Peek(c, 0))
         ELSE Done([Drop(c, 2) EXCEPT !.pc = @ + 1])
    [] op = OP_CODECOPY ->
         LET destOffset == Peek(c, 0)
             offset == Peek(c, 1)
             size == Peek(c, 2)
             data == Slice(c.code, offset, offset + size)
             padded == data \o Zeros(size - Len(data))
         IN Done(writeMemory(Drop(c, 3), destOffset, padded))
    [] op = OP_RETURN ->
         LET r == readMemory(Drop(c, 2), Peek(c, 0), Peek(c, 1))
         IN Done([r.ctx EXCEPT !.returnData = r.data, !.stopped = TRUE])
    [] op = OP_REVERT ->
         LET r == readMemory(Drop(c, 2), Peek(c, 0), Peek(c, 1))
         IN Done([r.ctx EXCEPT !.returnData = r.data, !.stopped = TRUE,
                               !.reverted = TRUE])
    [] op = OP_PUSH1 ->
         \* readPushData: pc++ past the opcode, then readBytes(1)
         IF c.pc + 2 > Len(c.code) THEN Throw([c EXCEPT !.pc = @ + 1], "code out of bounds")
         ELSE push([c EXCEPT !.pc = @ + 2], c.code[c.pc + 2])

Operands(op) ==
  CASE op \in {OP_POP, OP_SLOAD, OP_JUMP} -> 1
    [] op \in {OP_SSTORE, OP_JUMPI, OP_RETURN, OP_REVERT}
               \cup ArithmeticOpcodes -> 2
    [] op \in {OP_CODECOPY, OP_CALLDATACOPY} -> 3
    [] OTHER -> 0

\* A handler that acts first and charges its gas afterwards.
HandlerChargingLast(ctx, op) ==
  IF Len(ctx.stack) < Operands(op) THEN Throw(ctx, "stack underflow")
  ELSE IF HandlerBody(ctx, op).thrown THEN HandlerBody(ctx, op)
  ELSE IF HandlerBody(ctx, op).ctx.gasLeft < GAS_COSTS(op)
    THEN Throw(HandlerBody(ctx, op).ctx, "out of gas")
  ELSE Done([HandlerBody(ctx, op).ctx EXCEPT !.gasLeft = @ - GAS_COSTS(op)])

\* useGas first, then the pops, then the effect.
Handler(ctx, op) ==
  IF ctx.gasLeft < GAS_COSTS(op) THEN Throw(ctx, "out of gas")
  ELSE LET c == [ctx EXCEPT !.gasLeft = @ - GAS_COSTS(op)]
       IN IF Len(c.stack) < Operands(op) THEN Throw(c, "stack underflow")
          ELSE HandlerBody(c, op)

\* The main loop of Evm.execute: what follows a handler's return or throw.
RECURSIVE Run(_)
AfterHandler(r, op) ==
  IF r.thrown THEN r
  ELSE IF op \notin {OP_JUMP, OP_JUMPI, OP_PUSH1} /\ ~r.ctx.stopped
       THEN Run([r.ctx EXCEPT !.pc = @ + 1])
       ELSE Run(r.ctx)

Run(ctx) ==
  IF ctx.stopped \/ ctx.pc >= Len(ctx.code) THEN Done(ctx)
  ELSE IF ctx.code[ctx.pc + 1] \notin ModelledOpcodes
       THEN Done([ctx EXCEPT !.returnData = <<>>, !.reverted = TRUE,
                             !.stopped = TRUE, !.err = "invalid opcode"])
       ELSE AfterHandler(Handler(ctx, ctx.code[ctx.pc + 1]), ctx.code[ctx.pc + 1])

\* One pass through the main loop of Evm.execute on a context that has not
\* stopped and whose pc is inside the code.
Iteration(ctx) ==
  LET opcode == ctx.code[ctx.pc + 1]
      r == Handler(ctx, opcode)
  IN IF opcode \notin ModelledOpcodes
     THEN Done([ctx EXCEPT !.returnData = <<>>, !.reverted = TRUE,
                           !.stopped = TRUE, !.err = "invalid opcode"])
     ELSE IF r.thrown THEN r
     ELSE IF opcode \notin {OP_JUMP, OP_JUMPI, OP_PUSH1} /\ ~r.ctx.stopped
       THEN Done([r.ctx EXCEPT !.pc = @ + 1])
     ELSE r

\* The ExecutionResult built from the final context r.
ExecutionResult(r, gasLimit) ==
  IF r.thrown
  THEN [success |-> FALSE, gasUsed |-> gasLimit - r.ctx.gasLeft,
        returnData |-> <<>>, w |-> r.ctx.w, err |-> r.ctx.err]
  ELSE [success |-> ~r.ctx.reverted, gasUsed |-> gasLimit - r.ctx.gasLeft,
        returnData |-> r.ctx.returnData, w |-> r.ctx.w,
        err |-> IF r.ctx.reverted /\ r.ctx.err = "none" THEN "revert"
                ELSE r.ctx.err]

\* Evm.execute: the result, and the world as the execution left it (the
\* SSTOREs of a failed execution are still in it).
execute(code, W, env, gasLimit, calldata) ==
  ExecutionResult(Run(NewContext(code, W, env, gasLimit, calldata)), gasLimit)

(***************************************************************************)
(* Programs                                                                *)
(***************************************************************************)
\* PUSH1 42, PUSH1 0, SSTORE, STOP
CodeStore == <<96, 42, 96, 0, 85, 0>>

\* PUSH1 42, PUSH1 0, SSTORE, PUSH1 0, PUSH1 0, REVERT
CodeStoreRevert == <<96, 42, 96, 0, 85, 96, 0, 96, 0, 253>>

\* PUSH1 42, PUSH1 0, SSTORE, 0xfe
CodeStoreInvalid == <<96, 42, 96, 0, 85, 254>>

\* PUSH1 42, PUSH1 0, SSTORE, PUSH1 1, JUMP
CodeStoreBadJump == <<96, 42, 96, 0, 85, 96, 1, 86>>

\* PUSH1 len, PUSH1 12, PUSH1 0, CODECOPY, PUSH1 len, PUSH1 0, RETURN, runtime
InitCode(runtime) ==
  <<96, Len(runtime), 96, 12, 96, 0, 57, 96, Len(runtime), 96, 0, 243>> \o runtime

(***************************************************************************)
(* Transaction executor                                                    *)
(***************************************************************************)
\* validateTransaction as it would be without the nonce check.
validateTransactionNoNonce(tx, W) ==
  IF ~accountExists(W, tx.from) THEN "sender"
  ELSE IF W.accounts[tx.from].balance < tx.value + tx.gasLimit * tx.gasPrice
       THEN "balance"
  ELSE IF tx.gasLimit <= 0 THEN "gasLimit"
  ELSE "ok"

\* validateTransaction: "ok" or the check that threw.
validateTransaction(tx, W) ==
  IF ~accountExists(W, tx.from) THEN "sender"
  ELSE IF tx.nonce # W.accounts[tx.from].nonce THEN "nonce"
  ELSE IF W.accounts[tx.from].balance < tx.value + tx.gasLimit * tx.gasPrice
       THEN "balance"
  ELSE IF tx.gasLimit <= 0 THEN "gasLimit"
  ELSE "ok"

\* A result of executeCall or executeCreate that did not throw.
Returned(r) ==
  [thrown |-> FALSE, success |-> r.success, gasUsed |-> r.gasUsed,
   returnData |-> r.returnData, w |-> r.w, err |-> r.err]

\* executeCall: the result and the world after it.
executeCall(tx, W, env) ==
  IF Len(getCode(W, tx.to)) = 0
  THEN [thrown |-> FALSE, success |-> TRUE, gasUsed |-> 0, returnData |-> <<>>,
        w |-> W, err |-> "none"]
  ELSE Returned(execute(getCode(W, tx.to), W, env, tx.gasLimit, tx.data))

\* executeCreate after the VM ran the init code with result r: the return
\* data becomes the code, or the value credited to the contract is removed.
CreateFinish(r, contractAddress) ==
  Returned([r EXCEPT !.w =
     IF r.success THEN setCode(r.w, contractAddress, r.returnData)
     ELSE subBalance(r.w, contractAddress, getBalance(r.w, contractAddress)).w])

\* executeCreate once the new account exists in W1.
CreateRun(tx, W1, env, contractAddress) ==
  CreateFinish(
    execute(tx.data,
            IF tx.value > 0 THEN addBalance(W1, contractAddress, tx.value) ELSE W1,
            [env EXCEPT !.address = contractAddress], tx.gasLimit, <<>>),
    contractAddress)

\* executeCreate: thrown = TRUE is 'Contract address already exists'.
executeCreate(tx, W, env) ==
  LET contractAddress == generateContractAddress(tx.from, getNonce(W, tx.from) - 1)
  IN IF accountExists(W, contractAddress)
     THEN [thrown |-> TRUE, success |-> FALSE, gasUsed |-> 0, returnData |-> <<>>,
           w |-> W, err |-> "collision"]
     ELSE CreateRun(tx,
                    putAccount(W, contractAddress,
                               [nonce |-> 1, balance |-> 0, code |-> <<>>]),
                    env, contractAddress)

\* The end of executeTransaction with the commit and the revert exchanged.
settleAlwaysCommit(W, snapshotId, success) == commit(W, snapshotId)

\* The end of executeTransaction: commit on success, revert otherwise.
settle(W, snapshotId, success) ==
  IF success THEN commit(W, snapshotId) ELSE revert(W, snapshotId).w

\* The catch block of executeTransaction.
TxCaught(tx, W, snapshotId, why) ==
  [res |-> [success |-> FALSE, gasUsed |-> tx.gasLimit, returnData |-> <<>>],
   w |-> revert(W, snapshotId).w, vm |-> why]

\* executeTransaction from the gas refund on, r being what executeCall or
\* executeCreate returned or threw.
TxFinish(tx, snapshotId, r) ==
  IF r.thrown THEN TxCaught(tx, r.w, snapshotId, r.err)
  ELSE [res |-> [success |-> r.success, gasUsed |-> r.gasUsed,
                 returnData |-> r.returnData],
        w |-> settle(addBalance(r.w, tx.from,
                                (tx.gasLimit - r.gasUsed) * tx.gasPrice),
                     snapshotId, r.success),
        vm |-> r.err]

TxEnv(tx) ==
  [address |-> tx.to, caller |-> tx.from, origin |-> tx.from,
   value |-> tx.value, gasPrice |-> tx.gasPrice]

\* executeTransaction from the nonce increment on.
TxRun(tx, snapshotId, W3) ==
  TxFinish(tx, snapshotId,
           IF tx.to = NullAddr
           THEN executeCreate(tx, incrementNonce(W3, tx.from), TxEnv(tx))
           ELSE executeCall(tx, incrementNonce(W3, tx.from), TxEnv(tx)))

\* executeTransaction from the value transfer on, d1 being the outcome of
\* the gas debit.
TxTransfer(tx, snapshotId, d1) ==
  IF ~d1.ok THEN TxCaught(tx, d1.w, snapshotId, "balance")
  ELSE IF tx.to = NullAddr \/ tx.value <= 0 THEN TxRun(tx, snapshotId, d1.w)
  ELSE IF ~subBalance(d1.w, tx.from, tx.value).ok
       THEN TxCaught(tx, d1.w, snapshotId, "balance")
  ELSE TxRun(tx, snapshotId,
             addBalance(subBalance(d1.w, tx.from, tx.value).w, tx.to, tx.value))

\* executeTransaction after the snapshot s was taken.
TxValidate(tx, s) ==
  IF validateTransaction(tx, s.w) # "ok"
  THEN TxCaught(tx, s.w, s.id, validateTransaction(tx, s.w))
  ELSE TxTransfer(tx, s.id, subBalance(s.w, tx.from, tx.gasLimit * tx.gasPrice))

executeTransaction(tx, W) == TxValidate(tx, snapshot(W))

(***************************************************************************)
(* Bookkeeping shared by all specifications: pre is the world before the   *)
(* last operation, last describes the operation and its outcome, snapObs   *)
(* remembers the world at the moment snapshot() returned each id.          *)
(***************************************************************************)
NoTx == [from |-> NullAddr, to |-> NullAddr, value |-> 0, gasLimit |-> 0,
         gasPrice |-> 0, nonce |-> 0, data |-> <<>>]

NoRes == [success |-> FALSE, gasUsed |-> 0, returnData |-> <<>>]

\* new Uint8Array(32): the zero hash.  A hash is modelled by the fields it
\* is computed from, so two hashes are equal when those fields are.
ZeroHash == <<>>

\* serializeBlockHeader lists the eleven header fields; calculateBlockHash
\* hashes that list.
serializeBlockHeader(header) ==
  <<header.parentHash, header.number, header.timestamp, header.stateRoot,
    header.transactionsRoot, header.receiptsRoot, header.validator,
    header.signature, header.gasLimit, header.gasUsed, header.extraData>>

calculateBlockHash(block) == serializeBlockHeader(block.header)

NoBlock ==
  [header |-> [parentHash |-> ZeroHash, number |-> 0, timestamp |-> 0,
               stateRoot |-> ZeroHash, transactionsRoot |-> ZeroHash,
               receiptsRoot |-> ZeroHash, validator |-> NullAddr,
               signature |-> <<>>, gasLimit |-> 0, gasUsed |-> 0,
               extraData |-> <<>>],
   transactions |-> <<>>]

NoOp == [op |-> "init", a |-> NullAddr, n |-> 0, id |-> 0, ok |-> TRUE,
         fresh |-> FALSE, tx |-> NoTx, res |-> NoRes, vm |-> "none",
         reason |-> "", block |-> NoBlock, tip |-> NoBlock]

\* new TransactionPool(config): pending and queued keep their entries in
\* insertion order, as a JavaScript Map does.
EmptyPool == [pending |-> <<>>, queued |-> <<>>,
              accountTransactions |-> EmptyMap, nextPriority |-> 0]

(***************************************************************************)
(* Specification SpecWorld: the world-state interface called directly      *)
(***************************************************************************)
WorldAddrs == {Alice, Bob}

Amounts == {1, 2}

NonceValues == {0, 3}

CodeValues == {<<0>>}

StorageValues == {0, 9}

PutValues == {[nonce |-> 1, balance |-> 5, code |-> <<>>]}

InitialWorld(impl) ==
  setStorage(addBalance(NewWorld(impl), Alice, 2), Alice, 0, 7)

InitWorld ==
  /\ world \in {InitialWorld("mem"), InitialWorld("level")}
  /\ pre = world
  /\ last = NoOp
  /\ snapObs = EmptyMap
  /\ steps = 0
  /\ pool = EmptyPool
  /\ prePool = EmptyPool
  /\ clock = 0
  /\ mined = <<>>
  /\ NoChain

WorldStep(w2, l) ==
  /\ steps < MaxWorldOps
  /\ steps' = steps + 1
  /\ pre' = world
  /\ world' = w2
  /\ last' = l
  /\ UNCHANGED <<pool, prePool, clock, mined>>
  /\ UNCHANGED chainVars

WAddBalance ==
  \E a \in WorldAddrs, x \in Amounts :
    /\ WorldStep(addBalance(world, a, x),
                 [NoOp EXCEPT !.op = "addBalance", !.a = a, !.n = x])
    /\ UNCHANGED snapObs

WSubBalance ==
  \E a \in WorldAddrs, x \in Amounts :
    LET r == subBalance(world, a, x)
    IN /\ WorldStep(r.w, [NoOp EXCEPT !.op = "subBalance", !.a = a, !.n = x,
                                      !.ok = r.ok])
       /\ UNCHANGED snapObs

WIncrementNonce ==
  \E a \in WorldAddrs :
    /\ WorldStep(incrementNonce(world, a),
                 [NoOp EXCEPT !.op = "incrementNonce", !.a = a])
    /\ UNCHANGED snapObs

WSetNonce ==
  \E a \in WorldAddrs, n \in NonceValues :
    /\ WorldStep(setNonce(world, a, n),
                 [NoOp EXCEPT !.op = "setNonce", !.a = a, !.n = n])
    /\ UNCHANGED snapObs

WSetCode ==
  \E a \in WorldAddrs, c \in CodeValues :
    /\ WorldStep(setCode(world, a, c), [NoOp EXCEPT !.op = "setCode", !.a = a])
    /\ UNCHANGED snapObs

WSetStorage ==
  \E a \in WorldAddrs, k \in {0}, v \in StorageValues :
    /\ WorldStep(setStorage(world, a, k, v),
                 [NoOp EXCEPT !.op = "setStorage", !.a = a, !.n = v])
    /\ UNCHANGED snapObs

WPutAccount ==
  \E a \in WorldAddrs, acct \in PutValues :
    /\ WorldStep(putAccount(world, a, acct),
                 [NoOp EXCEPT !.op = "putAccount", !.a = a])
    /\ UNCHANGED snapObs

WSnapshot ==
  /\ world.nextSnapshotId <= MaxSnapshots
  /\ LET r == snapshot(world)
     IN /\ WorldStep(r.w, [NoOp EXCEPT !.op = "snapshot", !.id = r.id])
        /\ snapObs' = Put(snapObs, r.id, [w |-> r.w, reverted |-> FALSE])

WRevert ==
  \E id \in 1..MaxSnapshots :
    LET r == revert(world, id)
        known == id \in DOMAIN snapObs
    IN /\ WorldStep(r.w, [NoOp EXCEPT !.op = "revert", !.id = id, !.ok = r.ok,
                            !.fresh = r.ok /\ known /\ ~snapObs[id].reverted])
       /\ snapObs' = IF r.ok /\ known
                     THEN [snapObs EXCEPT ![id].reverted = TRUE]
                     ELSE snapObs

WCommit ==
  \E id \in 0..MaxSnapshots :
    /\ WorldStep(commit(world, id), [NoOp EXCEPT !.op = "commit", !.id = id])
    /\ UNCHANGED snapObs

NextWorld ==
  \/ WAddBalance
  \/ WSubBalance
  \/ WIncrementNonce
  \/ WSetNonce
  \/ WSetCode
  \/ WSetStorage
  \/ WPutAccount
  \/ WSnapshot
  \/ WRevert
  \/ WCommit

SpecWorld == InitWorld /\ [][NextWorld]_vars

\* C1: the first revert(id) after id = snapshot() restores every account's
\* balance, nonce and code and every storage slot to their values at the
\* moment snapshot() returned id, whatever was done to the world in between.
C1_RevertRestoresSnapshot ==
  (last.op = "revert" /\ last.ok /\ last.fresh)
    => SameWorld(world, snapObs[last.id].w)

\* A first revert that undid something: the world before it differed.
C1_Witness ==
  /\ last.op = "revert" /\ last.ok /\ last.fresh
  /\ ~SameWorld(pre, world)
  /\ pre.accounts # world.accounts
  /\ \E a \in WorldAddrs : getStorage(pre, a, 0) # getStorage(world, a, 0)

(***************************************************************************)
(* Specification SpecExec: a sequence of executeTransaction calls on a     *)
(* world with two funded accounts and four deployed contracts.             *)
(***************************************************************************)
InvalidContract == 6

BadJumpContract == 7

Funds == 100000

Account(balance, code) == [nonce |-> 0, balance |-> balance, code |-> code]

GenesisWorld(impl) ==
  LET W0 == NewWorld(impl)
      W1 == putAccount(W0, Alice, Account(Funds, <<>>))
      W2 == putAccount(W1, Bob, Account(1, <<>>))
      W3 == putAccount(W2, StoreContract, Account(0, CodeStore))
      W4 == putAccount(W3, RevertContract, Account(0, CodeStoreRevert))
      W5 == putAccount(W4, InvalidContract, Account(0, CodeStoreInvalid))
  IN putAccount(W5, BadJumpContract, Account(0, CodeStoreBadJump))

TxSenders == {Alice, Bob, Carol}

TxRecipients == {Bob, StoreContract, RevertContract, InvalidContract,
                 BadJumpContract, generateContractAddress(Alice, 1)}

TxValues == {0, 1}

TxGasLimits == {0, 10, 30000}

TxGasPrices == {2}

TxNonces == {0, 1}

InitCodes == {<<>>, InitCode(CodeStore), CodeStoreRevert}

Transactions ==
  { [from |-> f, to |-> t, value |-> v, gasLimit |-> g, gasPrice |-> p,
     nonce |-> n, data |-> d] :
      f \in TxSenders, t \in TxRecipients \cup {NullAddr}, v \in TxValues,
      g \in TxGasLimits, p \in TxGasPrices, n \in TxNonces, d \in InitCodes }

\* Calls carry no calldata here: none of the deployed programs reads it.
TxInputs == {tx \in Transactions : tx.to # NullAddr => tx.data = <<>>}

InitExec ==
  /\ world \in {GenesisWorld("mem"), GenesisWorld("level")}
  /\ pre = world
  /\ last = NoOp
  /\ snapObs = EmptyMap
  /\ steps = 0
  /\ pool = EmptyPool
  /\ prePool = EmptyPool
  /\ clock = 0
  /\ mined = <<>>
  /\ NoChain

ExecuteTransaction ==
  \E tx \in TxInputs :
    LET r == executeTransaction(tx, world)
    IN /\ steps < MaxTxs
       /\ steps' = steps + 1
       /\ pre' = world
       /\ world' = r.w
       /\ last' = [NoOp EXCEPT !.op = "tx", !.tx = tx, !.res = r.res,
                               !.vm = r.vm, !.ok = r.res.success]
       /\ UNCHANGED <<snapObs, pool, prePool, clock, mined>>
       /\ UNCHANGED chainVars

NextExec == ExecuteTransaction

SpecExec == InitExec /\ [][NextExec]_vars

VmErrors == {"revert", "out of gas", "invalid opcode", "invalid jump",
             "stack underflow", "stack overflow", "code out of bounds"}

\* The last operation was a transaction that passed validation and whose
\* VM execution failed.
VmFailed == last.op = "tx" /\ ~last.res.success /\ last.vm \in VmErrors

Sender == last.tx.from

GasCharge == last.res.gasUsed * last.tx.gasPrice

\* C2: after a transaction that passed validation and failed in the VM, the
\* sender's nonce is one higher and the sender's balance is lower by the
\* gas charge.
C2_FailedTxKeepsNonceAndGas ==
  VmFailed =>
    /\ getNonce(world, Sender) = getNonce(pre, Sender) + 1
    /\ getBalance(world, Sender) = getBalance(pre, Sender) - GasCharge

\* C3: a transaction whose VM execution failed leaves every storage slot,
\* every account's code and every balance but the sender's as before, and a
\* failed creation leaves no account at the computed contract address.
C3_FailedTxRollsBack ==
  VmFailed =>
    /\ \A a \in AllAddrs(pre) \cup AllAddrs(world) :
         /\ \A k \in Slots : getStorage(world, a, k) = getStorage(pre, a, k)
         /\ getCode(world, a) = getCode(pre, a)
         /\ a # Sender => getBalance(world, a) = getBalance(pre, a)
    /\ last.tx.to = NullAddr =>
         ~accountExists(world, generateContractAddress(Sender, getNonce(pre, Sender)))

\* A call with value to the contract that writes 42 to slot 0 and reverts.
C3_Witness ==
  /\ VmFailed
  /\ last.vm = "revert"
  /\ last.tx.to = RevertContract
  /\ last.tx.value > 0
  /\ getStorage(world, RevertContract, 0) = 0

RECURSIVE SumBalances(_, _)
SumBalances(W, S) ==
  IF S = {} THEN 0
  ELSE LET a == CHOOSE x \in S : TRUE
       IN W.accounts[a].balance + SumBalances(W, S \ {a})

TotalBalance(W) == SumBalances(W, DOMAIN W.accounts)

\* C4: a successful transaction changes the sum of all balances by exactly
\* minus gasUsed * gasPrice.
C4_SuccessConservesValue ==
  (last.op = "tx" /\ last.res.success) =>
    TotalBalance(world) = TotalBalance(pre) - GasCharge

\* The claim's validation conditions, read off the pre-state.
FailsValidation(W, tx) ==
  \/ ~accountExists(W, tx.from)
  \/ tx.nonce # getNonce(W, tx.from)
  \/ getBalance(W, tx.from) < tx.value + tx.gasLimit * tx.gasPrice
  \/ tx.gasLimit <= 0

\* C5: a transaction that fails validation returns success = false and
\* leaves every account and every storage slot unchanged.
C5_InvalidTxChangesNothing ==
  (last.op = "tx" /\ FailsValidation(pre, last.tx)) =>
    /\ ~last.res.success
    /\ SameWorld(pre, world)

\* A transaction of a funded sender rejected only for its nonce, after an
\* earlier transaction has changed the world.
C5_Witness ==
  /\ last.op = "tx" /\ last.vm = "nonce"
  /\ Sender = Alice /\ last.tx.gasLimit > 0 /\ last.tx.value > 0
  /\ getNonce(pre, Alice) = 1

\* C7: no executeTransaction call lowers any account's nonce, and a
\* successful one raises its sender's nonce by exactly one.
C7_NonceMonotone ==
  last.op = "tx" =>
    /\ \A a \in AllAddrs(pre) \cup AllAddrs(world) :
         getNonce(world, a) >= getNonce(pre, a)
    /\ last.res.success => getNonce(world, Sender) = getNonce(pre, Sender) + 1

\* A successful second transaction of a sender.
C7_Witness ==
  /\ last.op = "tx" /\ last.res.success
  /\ getNonce(pre, Sender) = 1 /\ getNonce(world, Sender) = 2

(***************************************************************************)
(* Specification SpecMixed: direct world-state operations interleaved with *)
(* executeTransaction calls.                                               *)
(***************************************************************************)
MixedTxInputs ==
  { [from |-> f, to |-> t, value |-> 1, gasLimit |-> 1, gasPrice |-> 2,
     nonce |-> n, data |-> <<>>] :
      f \in WorldAddrs, t \in {Bob, RevertContract, NullAddr}, n \in {0, 1} }

InitMixed ==
  /\ world \in {GenesisWorld("mem"), GenesisWorld("level")}
  /\ pre = world
  /\ last = NoOp
  /\ snapObs = EmptyMap
  /\ steps = MaxWorldOps - MaxMixedOps
  /\ pool = EmptyPool
  /\ prePool = EmptyPool
  /\ clock = 0
  /\ mined = <<>>
  /\ NoChain

MixedTx ==
  \E tx \in MixedTxInputs :
    LET r == executeTransaction(tx, world)
    IN /\ WorldStep(r.w, [NoOp EXCEPT !.op = "tx", !.tx = tx, !.res = r.res,
                                      !.vm = r.vm, !.ok = r.res.success])
       /\ UNCHANGED snapObs

NextMixed == NextWorld \/ MixedTx

SpecMixed == InitMixed /\ [][NextMixed]_vars

\* C8: every account balance is >= 0, and subBalance(a, x) with x greater
\* than a's balance fails and leaves the balance unchanged.
C8_BalancesNonNegative ==
  /\ \A a \in DOMAIN world.accounts : world.accounts[a].balance >= 0
  /\ (last.op = "subBalance" /\ last.n > getBalance(pre, last.a)) =>
       /\ ~last.ok
       /\ getBalance(world, last.a) = getBalance(pre, last.a)

\* A subBalance that asked for more than a positive balance, after a
\* transaction has been executed.
C8_Witness ==
  /\ last.op = "subBalance" /\ ~last.ok
  /\ getBalance(pre, last.a) > 0
  /\ world.nextSnapshotId > 1

(***************************************************************************)
(* Transaction pool (src/src/pool/txPool.ts).                              *)
(***************************************************************************)
\* TxPoolConfig, scaled down.
maxPoolSize == 2
maxAccountTransactions == 2
minGasPrice == 1
blockGasLimit == 30
transactionTimeout == 0

\* The fields serializeTransaction encodes, in order; a missing from or to
\* is encoded as the zero address.
serializeTransaction(tx) ==
  <<tx.from, tx.to, tx.value, tx.gasLimit, tx.gasPrice, tx.nonce, tx.data>>

\* keccak_256 of the serialization, taken as collision free.
calculateTransactionHash(tx) == serializeTransaction(tx)

\* Map.has, Map.delete and Map.set on an insertion-ordered map of entries
\* keyed by entry.hash.
mapHas(m, h) == \E i \in 1..Len(m) : m[i].hash = h

mapDelete(m, h) == SelectSeq(m, LAMBDA e : e.hash # h)

mapSet(m, e) ==
  IF mapHas(m, e.hash)
  THEN [i \in 1..Len(m) |-> IF m[i].hash = e.hash THEN e ELSE m[i]]
  ELSE Append(m, e)

Entries(m) == {m[i] : i \in 1..Len(m)}

PoolTransaction(tx, now, priority) ==
  [transaction |-> tx, hash |-> calculateTransactionHash(tx), addedTime |-> now,
   gasPrice |-> tx.gasPrice, gasLimit |-> tx.gasLimit, sender |-> tx.from,
   nonce |-> tx.nonce, priority |-> priority]

\* The pool's own validateTransaction: "ok" or the reason of the rejection.
\* A zero gasPrice or gasLimit is falsy and skips its checks.
poolValidateTransaction(tx) ==
  IF tx.gasPrice # 0 /\ tx.gasPrice < minGasPrice THEN "Gas price too low"
  ELSE IF tx.gasLimit # 0 /\ tx.gasLimit > blockGasLimit
       THEN "Gas limit exceeds block gas limit"
  ELSE IF tx.gasLimit # 0 /\ tx.gasLimit <= 0 THEN "Gas limit must be positive"
  ELSE IF tx.nonce < 0 THEN "Invalid nonce"
  ELSE IF tx.value # 0 /\ tx.value < 0 THEN "Invalid value"
  ELSE IF tx.from = NullAddr THEN "Missing sender address"
  ELSE "ok"

getAccountTransactions(P, sender) ==
  IF sender \in DOMAIN P.accountTransactions
  THEN P.accountTransactions[sender] ELSE <<>>

RECURSIVE MaxNonce(_, _)
MaxNonce(txs, acc) ==
  IF txs = <<>> THEN acc
  ELSE MaxNonce(Tail(txs), IF Head(txs).nonce > acc THEN Head(txs).nonce ELSE acc)

getCurrentNonce(P, sender) ==
  LET accountTxs == getAccountTransactions(P, sender)
  IN IF Len(accountTxs) = 0 THEN 0 ELSE MaxNonce(accountTxs, 0) + 1

\* A removal that leaves the sender's list as it was.
DropEntryKeepingList(P, e) ==
  [P EXCEPT !.pending = mapDelete(@, e.hash),
            !.queued = mapDelete(@, e.hash)]

\* One eviction of enforcePoolSizeLimit, and one removal of
\* removeTransactions: the entry leaves pending, queued and its sender's
\* list; the list's key is deleted when the list becomes empty.
DropEntry(P, e) ==
  LET rest == SelectSeq(getAccountTransactions(P, e.sender),
                        LAMBDA t : t.hash # e.hash)
  IN [P EXCEPT !.pending = mapDelete(@, e.hash),
               !.queued = mapDelete(@, e.hash),
               !.accountTransactions =
                  IF rest = <<>> THEN Del(@, e.sender)
                  ELSE IF e.sender \in DOMAIN @ THEN Put(@, e.sender, rest)
                  ELSE @]

RECURSIVE DropAll(_, _)
DropAll(P, es) ==
  IF es = {} THEN P
  ELSE LET e == CHOOSE x \in es : TRUE
       IN DropAll(DropEntry(P, e), es \ {e})

\* A comparator that, among equal gas prices, puts the newer entry first.
EvictedNewestFirst(a, b) ==
  \/ a.gasPrice < b.gasPrice
  \/ a.gasPrice = b.gasPrice /\ a.addedTime > b.addedTime

\* The comparator of enforcePoolSizeLimit puts a before b when its gas price
\* is lower, or equal with an earlier addedTime. For equal gas price and
\* equal addedTime it answers -1 both ways, so the order of such entries
\* after Array.prototype.sort is implementation-defined.
EvictedBefore(a, b) ==
  \/ a.gasPrice < b.gasPrice
  \/ a.gasPrice = b.gasPrice /\ a.addedTime < b.addedTime

\* The pools enforcePoolSizeLimit can leave behind.
enforcePoolSizeLimit(P) ==
  LET totalSize == Len(P.pending) + Len(P.queued)
      all       == Entries(P.pending) \cup Entries(P.queued)
      toRemove  == totalSize - maxPoolSize
  IN IF totalSize <= maxPoolSize THEN {P}
     ELSE { DropAll(P, R) :
              R \in { X \in SUBSET all :
                        /\ Cardinality(X) = toRemove
                        /\ \A r \in X, o \in all \ X : ~EvictedBefore(o, r) } }

\* addTransaction(transaction) at time now: the possible outcomes, each with
\* the answer returned and the pool left behind.
addTransaction(P, tx, now) ==
  LET validation == poolValidateTransaction(tx)
      hash       == calculateTransactionHash(tx)
      sender     == tx.from
      poolTx     == PoolTransaction(tx, now, P.nextPriority)
      P1         == [P EXCEPT !.nextPriority = @ + 1]
      accountTxs == getAccountTransactions(P1, sender)
      currentNonce == getCurrentNonce(P1, sender)
      listed     == [P1 EXCEPT !.accountTransactions =
                                  Put(@, sender, Append(accountTxs, poolTx))]
      Rejected(reason, Q) == {[added |-> FALSE, reason |-> reason, p |-> Q]}
      Admitted(Q) == {[added |-> TRUE, reason |-> "", p |-> R] :
                        R \in enforcePoolSizeLimit(Q)}
  IN IF validation # "ok" THEN Rejected(validation, P)
     ELSE IF mapHas(P.pending, hash) \/ mapHas(P.queued, hash)
          THEN Rejected("Transaction already exists in pool", P)
     ELSE IF Len(accountTxs) >= maxAccountTransactions
          THEN Rejected("Too many transactions for this account", P1)
     ELSE IF tx.nonce = currentNonce
          THEN Admitted([listed EXCEPT !.pending = mapSet(@, poolTx)])
     ELSE IF tx.nonce > currentNonce
          THEN Admitted([listed EXCEPT !.queued = mapSet(@, poolTx)])
     ELSE Rejected("Transaction nonce too old", P1)

\* A comparator that puts the lower gas price first.
SelectedCheapestFirst(a, b) ==
  \/ a.gasPrice < b.gasPrice
  \/ a.gasPrice = b.gasPrice /\ a.priority < b.priority

\* The comparator of getTransactionsForBlock: higher gas price first, then
\* lower priority first.
SelectedBefore(a, b) ==
  \/ a.gasPrice > b.gasPrice
  \/ a.gasPrice = b.gasPrice /\ a.priority < b.priority

\* Array.prototype.sort (stable) with that comparator.
RECURSIVE SortForBlock(_)
SortForBlock(m) ==
  IF m = <<>> THEN <<>>
  ELSE LET i == CHOOSE k \in 1..Len(m) :
                  /\ \A j \in 1..Len(m) : ~SelectedBefore(m[j], m[k])
                  /\ \A j \in 1..(k - 1) : SelectedBefore(m[k], m[j])
       IN <<m[i]>> \o SortForBlock(SubSeq(m, 1, i - 1) \o SubSeq(m, i + 1, Len(m)))

RECURSIVE TakeUntilFull(_, _, _)
TakeUntilFull(sorted, totalGas, gasLimit) ==
  IF sorted = <<>> \/ totalGas + Head(sorted).gasLimit > gasLimit THEN <<>>
  ELSE <<Head(sorted)>> \o
       TakeUntilFull(Tail(sorted), totalGas + Head(sorted).gasLimit, gasLimit)

getTransactionsForBlock(P, gasLimit) ==
  TakeUntilFull(SortForBlock(P.pending), 0, gasLimit)

promoteQueuedTransactions(P, sender) ==
  LET accountTxs   == getAccountTransactions(P, sender)
      currentNonce == getCurrentNonce(P, sender)
      toPromote    == SelectSeq(accountTxs,
                        LAMBDA t : mapHas(P.queued, t.hash) /\ t.nonce = currentNonce)
      promoted     == {toPromote[i].hash : i \in 1..Len(toPromote)}
      moved        == SelectSeq(P.queued, LAMBDA t : t.hash \in promoted)
  IN [P EXCEPT !.queued = SelectSeq(@, LAMBDA t : t.hash \notin promoted),
               !.pending = @ \o moved]

RECURSIVE removeTransactions(_, _)
removeTransactions(P, hashes) ==
  IF hashes = <<>> THEN P
  ELSE LET hash == Head(hashes)
           found == SelectSeq(P.pending \o P.queued, LAMBDA t : t.hash = hash)
       IN IF found = <<>> THEN removeTransactions(P, Tail(hashes))
          ELSE removeTransactions(
                 promoteQueuedTransactions(DropEntry(P, found[1]), found[1].sender),
                 Tail(hashes))

Hashes(es) == [i \in 1..Len(es) |-> es[i].hash]

removeOldTransactions(P, now) ==
  LET old(m) == SelectSeq(m, LAMBDA t : now - t.addedTime > transactionTimeout)
  IN removeTransactions(P, Hashes(old(P.pending) \o old(P.queued)))

clear(P) == EmptyPool

(***************************************************************************)
(* Block processor (src/src/blockchain/utils.ts, class BlockProcessor).    *)
(***************************************************************************)
\* BlockProcessingOptions.gasLimit, scaled down.
optionsGasLimit == 30

\* simulateTransactionExecution: half of the gas limit, always a success.
simulateTransactionExecution(tx, gasLimit) ==
  [success |-> TRUE, gasUsed |-> gasLimit \div 2,
   contractAddress |-> IF tx.to # NullAddr THEN NullAddr
                       ELSE generateContractAddress(tx.from, tx.nonce)]

NoReceipt == [transactionHash |-> <<>>, gasUsed |-> 0, status |-> 0,
              contractAddress |-> NullAddr]

\* BlockProcessor.executeTransaction: the result and the world it leaves.
processorExecuteTransaction(tx, W) ==
  LET s         == snapshot(W)
      sender    == tx.from
      balance   == getBalance(s.w, sender)
      nonce     == getNonce(s.w, sender)
      gasCost   == tx.gasLimit * tx.gasPrice
      totalCost == gasCost + tx.value
      Failed(error, W2) == [success |-> FALSE, hasReceipt |-> FALSE,
                            receipt |-> NoReceipt, gasUsed |-> 0,
                            error |-> error, w |-> W2]
      debit     == subBalance(s.w, sender, gasCost)
      W1        == incrementNonce(debit.w, sender)
      sim       == simulateTransactionExecution(tx, tx.gasLimit)
      receipt   == [transactionHash |-> calculateTransactionHash(tx),
                    gasUsed |-> sim.gasUsed,
                    status |-> IF sim.success THEN 1 ELSE 0,
                    contractAddress |-> sim.contractAddress]
      W2        == addBalance(W1, sender, (tx.gasLimit - sim.gasUsed) * tx.gasPrice)
      back      == revert(W2, s.id).w
      redebit   == subBalance(back, sender, gasCost)
      W3        == IF sim.success THEN W2 ELSE incrementNonce(redebit.w, sender)
  IN IF tx.nonce # nonce THEN Failed("Invalid nonce", revert(s.w, s.id).w)
     ELSE IF balance < totalCost
          THEN Failed("Insufficient balance", revert(s.w, s.id).w)
     ELSE IF ~debit.ok THEN Failed("Transaction execution error", s.w)
     ELSE IF ~sim.success /\ ~redebit.ok
          THEN Failed("Transaction execution error", back)
     ELSE [success |-> sim.success, hasReceipt |-> TRUE, receipt |-> receipt,
           gasUsed |-> sim.gasUsed, error |-> "", w |-> W3]

\* The loop of createBlock over the selected pool entries.
RECURSIVE ExecuteAll(_, _, _, _)
ExecuteAll(txs, W, totalGasUsed, receipts) ==
  IF txs = <<>> \/ totalGasUsed + Head(txs).gasLimit > optionsGasLimit
  THEN [w |-> W, gasUsed |-> totalGasUsed, receipts |-> receipts]
  ELSE LET result == processorExecuteTransaction(Head(txs).transaction, W)
       IN IF result.success /\ result.hasReceipt
          THEN ExecuteAll(Tail(txs), result.w, totalGasUsed + result.gasUsed,
                          Append(receipts, result.receipt))
          ELSE ExecuteAll(Tail(txs), result.w, totalGasUsed, receipts)

\* A block processor that reports the gas limits of the selected transactions
\* as the block's gas used.
createBlockChargingLimits(W, P) ==
  LET poolTransactions == getTransactionsForBlock(P, optionsGasLimit)
      s    == snapshot(W)
      done == ExecuteAll(poolTransactions, s.w, 0, <<>>)
      RECURSIVE Limits(_)
      Limits(i) == IF i = 0 THEN 0
                   ELSE poolTransactions[i].gasLimit + Limits(i - 1)
  IN [success |-> TRUE,
      block |-> [transactions |-> [i \in 1..Len(poolTransactions) |->
                                     poolTransactions[i].transaction],
                 gasLimit |-> optionsGasLimit,
                 gasUsed |-> Limits(Len(poolTransactions))],
      receipts |-> done.receipts,
      w |-> commit(done.w, s.id),
      p |-> removeTransactions(P, Hashes(poolTransactions))]

\* A block processor that leaves the pool as it found it.
createBlockKeepingPool(W, P) ==
  LET poolTransactions == getTransactionsForBlock(P, optionsGasLimit)
      s    == snapshot(W)
      done == ExecuteAll(poolTransactions, s.w, 0, <<>>)
  IN [success |-> TRUE,
      block |-> [transactions |-> [i \in 1..Len(poolTransactions) |->
                                     poolTransactions[i].transaction],
                 gasLimit |-> optionsGasLimit,
                 gasUsed |-> done.gasUsed],
      receipts |-> done.receipts,
      w |-> commit(done.w, s.id),
      p |-> P]

\* BlockProcessor.createBlock on world W and pool P.
createBlock(W, P) ==
  LET poolTransactions == getTransactionsForBlock(P, optionsGasLimit)
      s    == snapshot(W)
      done == ExecuteAll(poolTransactions, s.w, 0, <<>>)
  IN [success |-> TRUE,
      block |-> [transactions |-> [i \in 1..Len(poolTransactions) |->
                                     poolTransactions[i].transaction],
                 gasLimit |-> optionsGasLimit,
                 gasUsed |-> done.gasUsed],
      receipts |-> done.receipts,
      w |-> commit(done.w, s.id),
      p |-> removeTransactions(P, Hashes(poolTransactions))]

(***************************************************************************)
(* Specification SpecNode: one node's pool and block processor. Clients    *)
(* submit transactions, blocks are produced from the pool, time passes.    *)
(***************************************************************************)
NodeTxInputs ==
  { [from |-> f, to |-> Bob, value |-> 1, gasLimit |-> g, gasPrice |-> p,
     nonce |-> n, data |-> <<>>] :
      f \in {Alice, Bob}, g \in {10, 20}, p \in {1, 2}, n \in {0, 1, 2} }

InitNode ==
  /\ world \in {GenesisWorld("mem"), GenesisWorld("level")}
  /\ pre = world
  /\ last = NoOp
  /\ snapObs = EmptyMap
  /\ steps = 0
  /\ pool = EmptyPool
  /\ prePool = EmptyPool
  /\ clock = 0
  /\ mined = <<>>
  /\ NoChain

NodeStep ==
  /\ steps < MaxNodeOps
  /\ steps' = steps + 1
  /\ pre' = world
  /\ prePool' = pool
  /\ UNCHANGED snapObs
  /\ UNCHANGED chainVars

AddTransaction ==
  \E tx \in NodeTxInputs :
    \E r \in addTransaction(pool, tx, clock) :
      /\ NodeStep
      /\ pool' = r.p
      /\ last' = [NoOp EXCEPT !.op = "addTransaction", !.tx = tx,
                              !.ok = r.added, !.reason = r.reason]
      /\ UNCHANGED <<world, clock, mined>>

CreateBlock ==
  LET r == createBlock(world, pool)
  IN /\ NodeStep
     /\ world' = r.w
     /\ pool' = r.p
     /\ mined' = Append(mined, [transactions |-> r.block.transactions,
                                gasLimit |-> r.block.gasLimit,
                                gasUsed |-> r.block.gasUsed,
                                receipts |-> r.receipts])
     /\ last' = [NoOp EXCEPT !.op = "createBlock", !.ok = r.success]
     /\ UNCHANGED clock

RemoveOldTransactions ==
  /\ NodeStep
  /\ pool' = removeOldTransactions(pool, clock)
  /\ last' = [NoOp EXCEPT !.op = "removeOldTransactions"]
  /\ UNCHANGED <<world, clock, mined>>

Clear ==
  /\ NodeStep
  /\ pool' = clear(pool)
  /\ last' = [NoOp EXCEPT !.op = "clear"]
  /\ UNCHANGED <<world, clock, mined>>

\* A second passes on the node's clock.
Tick ==
  /\ clock < MaxClock
  /\ NodeStep
  /\ clock' = clock + 1
  /\ last' = [NoOp EXCEPT !.op = "tick"]
  /\ UNCHANGED <<world, pool, mined>>

NextNode ==
  \/ AddTransaction
  \/ CreateBlock
  \/ RemoveOldTransactions
  \/ Clear
  \/ Tick

SpecNode == InitNode /\ [][NextNode]_vars

LastBlock == mined[Len(mined)]

\* A transaction the executor's rules accept in world W.
ValidIn(W, tx) ==
  /\ accountExists(W, tx.from)
  /\ tx.nonce = getNonce(W, tx.from)
  /\ getBalance(W, tx.from) >= tx.value + tx.gasLimit * tx.gasPrice
  /\ tx.gasLimit > 0

\* C6: when block production includes a valid plain transfer of value v
\* from A to B, afterwards B's balance has increased by v, A's balance has
\* decreased by v plus a gas charge (gas used, at most the gas limit, times
\* the gas price), and A's nonce has increased by one.
C6_BlockAppliesTransfer ==
  (/\ last.op = "createBlock"
   /\ Len(LastBlock.transactions) = 1
   /\ LastBlock.transactions[1].to \notin {NullAddr, LastBlock.transactions[1].from}
   /\ getCode(pre, LastBlock.transactions[1].to) = <<>>
   /\ ValidIn(pre, LastBlock.transactions[1]))
  => LET tx == LastBlock.transactions[1]
     IN /\ getBalance(world, tx.to) = getBalance(pre, tx.to) + tx.value
        /\ \E g \in 0..tx.gasLimit :
             getBalance(world, tx.from) =
               getBalance(pre, tx.from) - tx.value - g * tx.gasPrice
        /\ getNonce(world, tx.from) = getNonce(pre, tx.from) + 1

EntriesOf(P, sender) ==
  {e \in Entries(P.pending) \cup Entries(P.queued) : e.sender = sender}

\* C9: if the pool holds a queued transaction of sender S with nonce 1 and
\* no other entry of S, a valid transaction of S with nonce 0 submitted next
\* is admitted and placed in pending.
C9_GapFillerAdmitted ==
  (/\ last.op = "addTransaction"
   /\ last.tx.nonce = 0
   /\ poolValidateTransaction(last.tx) = "ok"
   /\ ValidIn(world, last.tx)
   /\ Len(prePool.pending) + Len(prePool.queued) < maxPoolSize
   /\ Cardinality(EntriesOf(prePool, last.tx.from)) = 1
   /\ \A e \in EntriesOf(prePool, last.tx.from) :
        e.nonce = 1 /\ mapHas(prePool.queued, e.hash))
  => /\ last.ok
     /\ mapHas(pool.pending, calculateTransactionHash(last.tx))

\* The transactions placed in the blocks produced so far.
MinedTransactions ==
  UNION { {mined[b].transactions[i] : i \in 1..Len(mined[b].transactions)} :
            b \in 1..Len(mined) }

\* C10: a queued transaction of sender S with nonce n is moved to pending
\* when S's transaction with nonce n-1 has entered pending or has been
\* included in a block: once block production has included S's nonce n-1
\* transaction and S's account nonce is n, a pool entry of S with nonce n is
\* pending for the next block, not queued.
C10_QueuedPromotedAfterPredecessor ==
  \A e \in Entries(pool.queued) :
    ~ /\ e.nonce > 0
      /\ getNonce(world, e.sender) = e.nonce
      /\ \E tx \in MinedTransactions :
           tx.from = e.sender /\ tx.nonce = e.nonce - 1

(***************************************************************************)
(* Proof of Authority consensus (src/src/consensus/poa.ts)                 *)
(*                                                                         *)
(* state.validators is a JavaScript Map: a sequence of ValidatorInfo       *)
(* records in insertion order, one per address.  The ValidatorInfo objects *)
(* that getActiveValidators returns are the objects of the Map, so a       *)
(* change made through an element of the filtered array is a change of     *)
(* the Map's entry with that address.                                      *)
(***************************************************************************)
inactivityThreshold == 10

ValidatorInfo(address) ==
  [address |-> address, isActive |-> TRUE, lastBlockNumber |-> 0,
   lastBlockTime |-> 0, missedBlocks |-> 0]

\* new PoAConsensus(config), config.validators in order.
PoAConsensus(validators, blockTime) ==
  [validators |-> [i \in 1..Len(validators) |-> ValidatorInfo(validators[i])],
   currentValidatorIndex |-> 0,
   lastBlockNumber |-> 0,
   lastBlockTime |-> 0,
   inactivityThreshold |-> inactivityThreshold,
   blockTime |-> blockTime]

hasValidator(C, address) ==
  \E i \in 1..Len(C.validators) : C.validators[i].address = address

\* The Map entry of an address, changed in place by f.
UpdateValidator(C, address, f(_)) ==
  [C EXCEPT !.validators =
     [i \in 1..Len(C.validators) |->
        IF C.validators[i].address = address
        THEN f(C.validators[i]) ELSE C.validators[i]]]

getActiveValidators(C) == SelectSeq(C.validators, LAMBDA v : v.isActive)

\* addValidator, removeValidator and reactivateValidator throw for an
\* address that is already there, respectively not there.
addValidator(C, address) ==
  IF hasValidator(C, address)
  THEN [thrown |-> TRUE, c |-> C]
  ELSE [thrown |-> FALSE,
        c |-> [C EXCEPT !.validators = Append(@, ValidatorInfo(address))]]

removeValidator(C, address) ==
  IF ~hasValidator(C, address)
  THEN [thrown |-> TRUE, c |-> C]
  ELSE [thrown |-> FALSE,
        c |-> UpdateValidator(C, address,
                              LAMBDA v : [v EXCEPT !.isActive = FALSE])]

reactivateValidator(C, address) ==
  IF ~hasValidator(C, address)
  THEN [thrown |-> TRUE, c |-> C]
  ELSE [thrown |-> FALSE,
        c |-> UpdateValidator(C, address,
                LAMBDA v : [v EXCEPT !.isActive = TRUE, !.missedBlocks = 0])]

\* The attempts at which the loop of getNextValidator would return.
EligibleAttempts(C, active) ==
  { a \in 0..(Len(active) - 1) :
      active[((C.currentValidatorIndex + a) % Len(active)) + 1].missedBlocks
        < C.inactivityThreshold }

FirstAttempt(S) == CHOOSE a \in S : \A b \in S : a <= b

\* getNextValidator(): the first active validator, counting from
\* currentValidatorIndex, with fewer missed blocks than the threshold; its
\* index is stored.  found = FALSE is the null result.
getNextValidator(C) ==
  LET active == getActiveValidators(C)
  IN IF Len(active) = 0 \/ EligibleAttempts(C, active) = {}
     THEN [found |-> FALSE, address |-> NullAddr, c |-> C]
     ELSE LET validatorIndex ==
                (C.currentValidatorIndex
                   + FirstAttempt(EligibleAttempts(C, active))) % Len(active)
          IN [found |-> TRUE,
              address |-> active[validatorIndex + 1].address,
              c |-> [C EXCEPT !.currentValidatorIndex = validatorIndex]]

\* isValidValidator(validator, blockNumber)
isValidValidator(C, validator, blockNumber) ==
  LET active == getActiveValidators(C)
  IN IF Len(active) = 0 THEN FALSE
     ELSE IF blockNumber = 0 THEN TRUE
     ELSE active[(blockNumber % Len(active)) + 1].address = validator

\* validateBlockSignature(header): the genesis header needs no signature.
validateBlockSignature(header) ==
  header.number = 0 \/ Len(header.signature) > 0

\* validateBlockHeader(header, parentHeader) at wall-clock second now;
\* parent is <<>> when no parent header is passed.
validateBlockHeader(C, header, parent, now) ==
  IF ~isValidValidator(C, header.validator, header.number)
    THEN "Invalid validator for this block number"
  ELSE IF header.timestamp > now + 60
    THEN "Block timestamp too far in future"
  ELSE IF parent # <<>> /\ header.timestamp <= parent[1].timestamp
    THEN "Block timestamp must be greater than parent"
  ELSE IF parent # <<>> /\ header.timestamp - parent[1].timestamp < C.blockTime
    THEN "Block created too quickly"
  ELSE IF ~validateBlockSignature(header)
    THEN "Invalid block signature"
  ELSE "valid"

\* updateMissedBlocks(block): number % BigInt(activeValidators.length)
\* throws a RangeError when no validator is active.
\* The increment without the deactivation.
MissedBlockStaysActive(v, threshold) ==
  [v EXCEPT !.missedBlocks = @ + 1]

MissedBlock(v, threshold) ==
  [v EXCEPT !.missedBlocks = @ + 1,
            !.isActive = IF v.missedBlocks + 1 >= threshold THEN FALSE ELSE @]

\* An update that counts a missed block for every active validator other
\* than the producer.
updateMissedBlocksOfAll(C, header) ==
  LET active == getActiveValidators(C)
  IN IF header.number <= 0 THEN [thrown |-> FALSE, c |-> C]
     ELSE IF Len(active) = 0 THEN [thrown |-> TRUE, c |-> C]
     ELSE [thrown |-> FALSE,
           c |-> [C EXCEPT !.validators =
                    [i \in 1..Len(C.validators) |->
                       IF /\ C.validators[i].isActive
                          /\ C.validators[i].address # header.validator
                       THEN MissedBlock(C.validators[i], C.inactivityThreshold)
                       ELSE C.validators[i]]]]

updateMissedBlocks(C, header) ==
  LET active == getActiveValidators(C)
  IN IF header.number <= 0 THEN [thrown |-> FALSE, c |-> C]
     ELSE IF Len(active) = 0 THEN [thrown |-> TRUE, c |-> C]
     ELSE IF active[(header.number % Len(active)) + 1].address
               = header.validator
       THEN [thrown |-> FALSE, c |-> C]
     ELSE [thrown |-> FALSE,
           c |-> UpdateValidator(C,
                   active[(header.number % Len(active)) + 1].address,
                   LAMBDA v : MissedBlock(v, C.inactivityThreshold))]

\* updateValidatorState(block): the producer's record, then the missed
\* blocks, then the engine's last block; a throw of updateMissedBlocks
\* leaves the first change in place and skips the last.
AfterMissedBlocks(r, header) ==
  IF r.thrown THEN r
  ELSE [thrown |-> FALSE,
        c |-> [r.c EXCEPT !.lastBlockNumber = header.number,
                          !.lastBlockTime = header.timestamp]]

updateValidatorState(C, header) ==
  AfterMissedBlocks(
    updateMissedBlocks(
      UpdateValidator(C, header.validator,
        LAMBDA v : [v EXCEPT !.lastBlockNumber = header.number,
                             !.lastBlockTime = header.timestamp,
                             !.missedBlocks = 0]),
      header),
    header)

\* shouldReorg(newBlock, currentTip): only the two block numbers are read;
\* no newChain and no commonAncestor is ever returned.
shouldReorg(newBlock, currentTip) ==
  IF newBlock.header.number <= currentTip.header.number
    THEN [action |-> "ignore", hasNewChain |-> FALSE,
          hasCommonAncestor |-> FALSE]
  ELSE IF newBlock.header.number > currentTip.header.number + 1
    THEN [action |-> "reorg", hasNewChain |-> FALSE,
          hasCommonAncestor |-> FALSE]
  ELSE [action |-> "extend", hasNewChain |-> FALSE,
        hasCommonAncestor |-> FALSE]

(***************************************************************************)
(* Specification SpecConsensus: the consensus engine called directly, the  *)
(* blocks reported to it numbered consecutively as the manager numbers     *)
(* them                                                                    *)
(***************************************************************************)
MaxHeight == 20
MaxValidatorOps == 2

configValidators == <<Alice, Bob>>
configBlockTime == 1

ValidatorAddrs == {Alice, Bob, Carol}
Producers == {Alice, Bob}

\* A produced block as the engine sees it: number, timestamp and producer.
\* One block per blockTime: the timestamp is blockTime * number.
ReportedHeader(number, validator) ==
  [NoBlock.header EXCEPT !.number = number,
                         !.timestamp = configBlockTime * number,
                         !.validator = validator,
                         !.signature = <<1>>]

InitConsensus ==
  /\ consensus = PoAConsensus(configValidators, configBlockTime)
  /\ preChain = <<>>
  /\ vm = <<>>
  /\ storage = <<>>
  /\ isInitialized = FALSE
  /\ world = NewWorld("mem")
  /\ pre = world
  /\ last = NoOp
  /\ snapObs = EmptyMap
  /\ steps = 0
  /\ pool = EmptyPool
  /\ prePool = EmptyPool
  /\ clock = 0
  /\ mined = <<>>

ConsensusStep(c2, l) ==
  /\ consensus' = c2
  /\ last' = l
  /\ UNCHANGED <<world, pre, snapObs, pool, prePool, clock, mined,
                 storage, isInitialized, preChain, vm>>

\* The validator set is changed at most MaxValidatorOps times.
ValidatorOp ==
  /\ steps < MaxValidatorOps
  /\ steps' = steps + 1

GetNextValidator ==
  LET r == getNextValidator(consensus)
  IN /\ ConsensusStep(r.c, [NoOp EXCEPT !.op = "getNextValidator",
                                        !.ok = r.found, !.a = r.address,
                                        !.n = consensus.lastBlockNumber + 1])
     /\ UNCHANGED steps

UpdateValidatorState ==
  /\ consensus.lastBlockNumber < MaxHeight
  /\ \E v \in Producers :
       LET header == ReportedHeader(consensus.lastBlockNumber + 1, v)
           r == updateValidatorState(consensus, header)
       IN /\ ConsensusStep(r.c, [NoOp EXCEPT !.op = "updateValidatorState",
                                             !.ok = ~r.thrown, !.a = v,
                                             !.n = header.number])
          /\ UNCHANGED steps

AddValidator ==
  \E v \in ValidatorAddrs :
    LET r == addValidator(consensus, v)
    IN /\ ValidatorOp
       /\ ConsensusStep(r.c, [NoOp EXCEPT !.op = "addValidator",
                                          !.ok = ~r.thrown, !.a = v])

RemoveValidator ==
  \E v \in ValidatorAddrs :
    LET r == removeValidator(consensus, v)
    IN /\ ValidatorOp
       /\ ConsensusStep(r.c, [NoOp EXCEPT !.op = "removeValidator",
                                          !.ok = ~r.thrown, !.a = v])

ReactivateValidator ==
  \E v \in ValidatorAddrs :
    LET r == reactivateValidator(consensus, v)
    IN /\ ValidatorOp
       /\ ConsensusStep(r.c, [NoOp EXCEPT !.op = "reactivateValidator",
                                          !.ok = ~r.thrown, !.a = v])

NextConsensus ==
  \/ GetNextValidator
  \/ UpdateValidatorState
  \/ AddValidator
  \/ RemoveValidator
  \/ ReactivateValidator

SpecConsensus == InitConsensus /\ [][NextConsensus]_vars

\* C11: with two or more active validators, the validator that
\* getNextValidator selects for the next block N (the block after the last
\* one reported, as in BlockchainManager.createBlock) is the validator that
\* header validation expects for N, activeValidators[N mod |activeValidators|].
C11_NextValidatorIsExpected ==
  (/\ last.op = "getNextValidator"
   /\ last.ok
   /\ Len(getActiveValidators(consensus)) >= 2)
    => isValidValidator(consensus, last.a, last.n)

IsActiveIn(C, address) ==
  \E i \in 1..Len(C.validators) :
    C.validators[i].address = address /\ C.validators[i].isActive

IsInactiveIn(C, address) ==
  \E i \in 1..Len(C.validators) :
    C.validators[i].address = address /\ ~C.validators[i].isActive

\* C12: a validator whose missedBlocks has reached the inactivity
\* threshold is inactive; an inactive validator becomes active again only
\* through reactivateValidator on its address; and getNextValidator only
\* returns validators that are active.
C12_InactiveAfterThreshold ==
  [][ /\ \A i \in 1..Len(consensus'.validators) :
           consensus'.validators[i].missedBlocks >= inactivityThreshold
             => ~consensus'.validators[i].isActive
      /\ \A v \in ValidatorAddrs :
           (IsInactiveIn(consensus, v) /\ IsActiveIn(consensus', v))
             => (last'.op = "reactivateValidator" /\ last'.a = v)
      /\ (last'.op = "getNextValidator" /\ last'.ok)
           => IsActiveIn(consensus', last'.a) ]_vars

\* A validator was deactivated for reaching the threshold, and
\* getNextValidator has just returned another validator.
C12_Witness ==
  /\ last.op = "getNextValidator"
  /\ last.ok
  /\ \E i \in 1..Len(consensus.validators) :
       /\ consensus.validators[i].missedBlocks >= inactivityThreshold
       /\ ~consensus.validators[i].isActive
       /\ consensus.validators[i].address # last.a

(***************************************************************************)
(* Specification SpecFork: fork choice applied to a received block and a   *)
(* chain tip                                                               *)
(***************************************************************************)
MaxForkNumber == 3

\* An empty block as another node sends it.
PeerBlock(parentHash, number, timestamp, validator) ==
  [NoBlock EXCEPT !.header.parentHash = parentHash,
                  !.header.number = number,
                  !.header.timestamp = timestamp,
                  !.header.validator = validator,
                  !.header.signature = IF number = 0 THEN <<>> ELSE <<1>>,
                  !.header.gasLimit = optionsGasLimit]

GenesisBlock == PeerBlock(ZeroHash, 0, 0, Alice)

\* Two blocks at height 1 on the genesis block and one at height 2.
ForkTips ==
  { GenesisBlock,
    PeerBlock(calculateBlockHash(GenesisBlock), 1, 1, Alice),
    PeerBlock(calculateBlockHash(GenesisBlock), 1, 1, Bob),
    PeerBlock(calculateBlockHash(
                PeerBlock(calculateBlockHash(GenesisBlock), 1, 1, Bob)),
              2, 2, Alice) }

ForkBlocks ==
  { PeerBlock(h, n, n, v) :
      h \in {ZeroHash} \cup { calculateBlockHash(b) : b \in ForkTips },
      n \in 0..MaxForkNumber, v \in {Alice, Bob} }

InitFork ==
  /\ last \in { [NoOp EXCEPT !.op = "received", !.block = b, !.tip = tip] :
                  b \in ForkBlocks, tip \in ForkTips }
  /\ consensus = PoAConsensus(configValidators, configBlockTime)
  /\ preChain = <<>>
  /\ vm = <<>>
  /\ storage = <<>>
  /\ isInitialized = FALSE
  /\ world = NewWorld("mem")
  /\ pre = world
  /\ snapObs = EmptyMap
  /\ steps = 0
  /\ pool = EmptyPool
  /\ prePool = EmptyPool
  /\ clock = 0
  /\ mined = <<>>

ShouldReorg ==
  /\ last.op = "received"
  /\ last' = [last EXCEPT !.op = "shouldReorg",
                          !.reason = shouldReorg(last.block, last.tip).action]
  /\ UNCHANGED <<world, pre, snapObs, steps, pool, prePool, clock, mined,
                 chainVars>>

NextFork == ShouldReorg

SpecFork == InitFork /\ [][NextFork]_vars

\* C14: for a new block at height tip.number + 1, shouldReorg returns
\* 'extend' exactly when the block's parentHash is the hash of the tip's
\* header, and 'ignore' when it is not.
C14_ExtendOnlyOnTip ==
  (/\ last.op = "shouldReorg"
   /\ last.block.header.number = last.tip.header.number + 1)
    => /\ (last.reason = "extend")
            <=> (last.block.header.parentHash = calculateBlockHash(last.tip))
       /\ (last.block.header.parentHash # calculateBlockHash(last.tip))
            => (last.reason = "ignore")

(***************************************************************************)
(* Block storage (BlockchainStorage) and BlockchainManager                 *)
(*                                                                         *)
(* The database is a key-value store: blocks holds the `block:<hash>`      *)
(* entries, blockByNumber the `blockByNumber:<n>` entries, chainTip the    *)
(* `chainTip` entry (<<>> when absent).                                    *)
(*                                                                         *)
(* The values are written with JSON.stringify.  JSON.stringify throws a    *)
(* TypeError for a BigInt value, no replacer is passed and no toJSON is    *)
(* defined for BigInt anywhere in the sources.  The header fields number,  *)
(* timestamp, gasLimit and gasUsed are bigint (BlockHeader), and so are    *)
(* value, gasLimit, gasPrice and nonce of a Transaction.                   *)
(***************************************************************************)
EmptyStorage == [blocks |-> EmptyMap, blockByNumber |-> EmptyMap,
                 chainTip |-> <<>>]

\* What storeBlock writes when the serialization of the header succeeds.
storeBlockWritten(S, block) ==
  [thrown |-> FALSE,
   s |-> [blocks |-> Put(S.blocks, calculateBlockHash(block), block),
          blockByNumber |-> Put(S.blockByNumber, block.header.number,
                                calculateBlockHash(block)),
          chainTip |-> <<calculateBlockHash(block)>>]]

\* storeBlock(block): JSON.stringify({header: block.header, ...}) is the
\* first statement after the hash and throws for the bigint fields of the
\* header, before any db.put; the catch rethrows 'Failed to store block'.
storeBlock(S, block) == [thrown |-> TRUE, s |-> S]

\* getBlock(hash): <<>> is null.
getBlock(S, hash) ==
  IF hash \in DOMAIN S.blocks THEN <<S.blocks[hash]>> ELSE <<>>

getBlockByNumber(S, number) ==
  IF number \in DOMAIN S.blockByNumber
  THEN getBlock(S, S.blockByNumber[number]) ELSE <<>>

getChainTip(S) ==
  IF S.chainTip = <<>> THEN <<>> ELSE getBlock(S, S.chainTip[1])

\* calculateTransactionsRoot: the zero hash for no transactions, else the
\* hash of the concatenated serializations.
calculateTransactionsRoot(transactions) ==
  IF transactions = <<>> THEN ZeroHash
  ELSE [i \in 1..Len(transactions) |-> serializeTransaction(transactions[i])]

\* signBlockHeader: 65 bytes that start with the hash of the header.
signBlockHeader(header) ==
  IF header.number = 0 THEN header
  ELSE [header EXCEPT !.signature = <<serializeBlockHeader(header)>>]

\* BlockProcessor.validateTransactionAgainstState
validateTransactionAgainstState(tx, W) ==
  IF ~accountExists(W, tx.from) THEN "Sender account does not exist"
  ELSE IF tx.nonce # getNonce(W, tx.from) THEN "Invalid nonce"
  ELSE IF getBalance(W, tx.from) < tx.gasLimit * tx.gasPrice + tx.value
    THEN "Insufficient balance"
  ELSE "valid"

SumGasLimit(transactions) ==
  LET RECURSIVE Sum(_)
      Sum(i) == IF i = 0 THEN 0 ELSE transactions[i].gasLimit + Sum(i - 1)
  IN Sum(Len(transactions))

\* BlockProcessor.validateBlock(block, parentBlock); parent is <<>> or
\* <<parentBlock>>.  The parent is used for its timestamp only.
validateBlock(C, W, block, parent, now) ==
  IF validateBlockHeader(C, block.header,
                         IF parent = <<>> THEN <<>> ELSE <<parent[1].header>>,
                         now) # "valid"
    THEN validateBlockHeader(C, block.header,
                         IF parent = <<>> THEN <<>> ELSE <<parent[1].header>>,
                         now)
  ELSE IF \E i, j \in 1..Len(block.transactions) :
            i < j /\ block.transactions[i] = block.transactions[j]
    THEN "Duplicate transaction in block"
  ELSE IF \E i \in 1..Len(block.transactions) :
            validateTransactionAgainstState(block.transactions[i], W) # "valid"
    THEN "Invalid transaction"
  ELSE IF SumGasLimit(block.transactions) # block.header.gasUsed
    THEN "Block gas used mismatch"
  ELSE IF SumGasLimit(block.transactions) > block.header.gasLimit
    THEN "Block gas limit exceeded"
  ELSE IF block.header.transactionsRoot
            # calculateTransactionsRoot(block.transactions)
    THEN "Invalid transactions root"
  ELSE "valid"

\* calculateStateRoot(): 32 bytes of 1.
StateRoot == <<1>>

\* The block that BlockProcessor.createBlock(parentBlock, validator) builds
\* from the result r of its execution loop.
ProcessedBlock(r, parentBlock, validator, now) ==
  [header |-> signBlockHeader(
     [parentHash |-> calculateBlockHash(parentBlock),
      number |-> parentBlock.header.number + 1,
      timestamp |-> now,
      stateRoot |-> StateRoot,
      transactionsRoot |-> calculateTransactionsRoot(r.block.transactions),
      receiptsRoot |-> IF r.receipts = <<>> THEN ZeroHash ELSE r.receipts,
      validator |-> validator,
      signature |-> <<>>,
      gasLimit |-> r.block.gasLimit,
      gasUsed |-> r.block.gasUsed,
      extraData |-> <<>>]),
   transactions |-> r.block.transactions]

\* The manager: its world state, pool, consensus engine, storage and flag.
Manager(W, P, C, S, initialized) ==
  [world |-> W, pool |-> P, consensus |-> C, storage |-> S,
   isInitialized |-> initialized]

Outcome(success, error, M) == [success |-> success, error |-> error, m |-> M]

\* Blockchain.initializeGenesisState for the genesis allocation
\* (Alice: Funds, Bob: 1; both with nonce 0).
initializeGenesisState(W) ==
  setNonce(addBalance(setNonce(addBalance(W, Alice, Funds), Alice, 0),
                      Bob, 1),
           Bob, 0)

\* createGenesisBlock(config) at second now.
createGenesisBlock(now) ==
  [NoBlock EXCEPT !.header.timestamp = now,
                  !.header.validator = configValidators[1],
                  !.header.gasLimit = optionsGasLimit]

\* addValidator for every configured validator, a throw being ignored.
RECURSIVE AddValidators(_, _)
AddValidators(C, validators) ==
  IF validators = <<>> THEN C
  ELSE AddValidators(addValidator(C, Head(validators)).c, Tail(validators))

\* initialize(): the steps after the genesis block is in the storage.
InitializeFinish(M, genesisBlock) ==
  IF updateValidatorState(AddValidators(M.consensus, configValidators),
                          genesisBlock.header).thrown
  THEN Outcome(FALSE, "Failed to initialize blockchain",
               [M EXCEPT !.consensus =
                  updateValidatorState(
                    AddValidators(M.consensus, configValidators),
                    genesisBlock.header).c])
  ELSE Outcome(TRUE, "",
               [M EXCEPT !.consensus =
                           updateValidatorState(
                             AddValidators(M.consensus, configValidators),
                             genesisBlock.header).c,
                         !.isInitialized = TRUE])

InitializeStore(M, stored, genesisBlock) ==
  IF stored.thrown
  THEN Outcome(FALSE, "Failed to initialize blockchain", M)
  ELSE InitializeFinish([M EXCEPT !.storage = stored.s], genesisBlock)

InitializeGenesis(M, now) ==
  IF getChainTip(M.storage) # <<>>
  THEN InitializeFinish(M, getChainTip(M.storage)[1])
  ELSE InitializeStore(M, storeBlock(M.storage, createGenesisBlock(now)),
                       createGenesisBlock(now))

initialize(M, now) ==
  IF M.isInitialized
  THEN Outcome(FALSE, "Blockchain already initialized", M)
  ELSE InitializeGenesis(
         [M EXCEPT !.world = initializeGenesisState(M.world)], now)

\* BlockchainManager.addTransaction: the set of outcomes of the pool's
\* addTransaction.
managerAddTransaction(M, tx, now) ==
  IF ~M.isInitialized
  THEN {Outcome(FALSE, "Blockchain not initialized", M)}
  ELSE { Outcome(r.added, r.reason, [M EXCEPT !.pool = r.p]) :
           r \in addTransaction(M.pool, tx, now) }

\* BlockchainManager.createBlock(validatorAddress): the steps after the
\* processor has built the block.
CreateBlockStore(M, stored, block) ==
  IF stored.thrown THEN Outcome(FALSE, "Block creation failed", M)
  ELSE IF updateValidatorState(M.consensus, block.header).thrown
    THEN Outcome(FALSE, "Block creation failed",
                 [M EXCEPT !.storage = stored.s,
                           !.consensus =
                             updateValidatorState(@, block.header).c])
  ELSE Outcome(TRUE, "",
               [M EXCEPT !.storage = stored.s,
                         !.consensus = updateValidatorState(@, block.header).c])

CreateBlockProcess(M, r, block) ==
  IF ~r.success THEN Outcome(FALSE, "Block creation failed", M)
  ELSE CreateBlockStore([M EXCEPT !.world = r.w, !.pool = r.p],
                        storeBlock(M.storage, block), block)

CreateBlockWith(M, currentTip, validator, now) ==
  CreateBlockProcess(M, createBlock(M.world, M.pool),
                     ProcessedBlock(createBlock(M.world, M.pool), currentTip,
                                    validator, now))

CreateBlockNext(M, currentTip, next, now) ==
  IF ~next.found THEN Outcome(FALSE, "No validator available", M)
  ELSE CreateBlockWith([M EXCEPT !.consensus = next.c], currentTip,
                       next.address, now)

\* A createBlock that lets the processor build the block before it looks at
\* isInitialized.
managerCreateBlockProcessingFirst(M, validatorAddress, now) ==
  IF ~M.isInitialized
    THEN Outcome(FALSE, "Blockchain not initialized",
                 [M EXCEPT !.world = createBlock(M.world, M.pool).w,
                           !.pool = createBlock(M.world, M.pool).p])
  ELSE IF getChainTip(M.storage) = <<>>
    THEN Outcome(FALSE, "No current block found", M)
  ELSE IF validatorAddress # <<>>
    THEN CreateBlockWith(M, getChainTip(M.storage)[1], validatorAddress[1],
                         now)
  ELSE CreateBlockNext(M, getChainTip(M.storage)[1],
                       getNextValidator(M.consensus), now)

\* validatorAddress is <<>> when the argument is left out.
managerCreateBlock(M, validatorAddress, now) ==
  IF ~M.isInitialized THEN Outcome(FALSE, "Blockchain not initialized", M)
  ELSE IF getChainTip(M.storage) = <<>>
    THEN Outcome(FALSE, "No current block found", M)
  ELSE IF validatorAddress # <<>>
    THEN CreateBlockWith(M, getChainTip(M.storage)[1], validatorAddress[1],
                         now)
  ELSE CreateBlockNext(M, getChainTip(M.storage)[1],
                       getNextValidator(M.consensus), now)

\* handleReorg(newBlock, forkChoice) throws 'Invalid fork choice for reorg'
\* unless the fork choice names a new chain and a common ancestor.  No
\* result of shouldReorg names them, so the statements after this check
\* never run.
handleReorg(M, newBlock, forkChoice) ==
  IF ~forkChoice.hasNewChain \/ ~forkChoice.hasCommonAncestor
  THEN [thrown |-> TRUE, m |-> M]
  ELSE [thrown |-> FALSE, m |-> M]

\* The 'extend' branch of addBlock.  After the block is stored and the
\* validator state updated, the manager's own calculateTransactionHash and
\* calculateBlockHash call JSON.stringify on a transaction, respectively on
\* the header, which throws for their bigint fields: the branch always ends
\* in the catch of addBlock.
AddBlockExtend(M, stored, block) ==
  IF stored.thrown THEN Outcome(FALSE, "Block addition failed", M)
  ELSE Outcome(FALSE, "Block addition failed",
               [M EXCEPT !.storage = stored.s,
                         !.consensus = updateValidatorState(@, block.header).c])

AddBlockChoose(M, block, currentTip, forkChoice) ==
  IF forkChoice.action = "reorg"
    THEN IF handleReorg(M, block, forkChoice).thrown
         THEN Outcome(FALSE, "Block addition failed",
                      handleReorg(M, block, forkChoice).m)
         ELSE Outcome(TRUE, "", handleReorg(M, block, forkChoice).m)
  ELSE IF forkChoice.action = "extend"
    THEN AddBlockExtend(M, storeBlock(M.storage, block), block)
  ELSE Outcome(FALSE, "Block ignored", M)

\* BlockchainManager.addBlock(block) at second now.
addBlock(M, block, now) ==
  IF ~M.isInitialized THEN Outcome(FALSE, "Blockchain not initialized", M)
  ELSE IF validateBlock(M.consensus, M.world, block,
                        IF block.header.number > 0
                        THEN getBlockByNumber(M.storage,
                                              block.header.number - 1)
                        ELSE <<>>,
                        now) # "valid"
    THEN Outcome(FALSE, "Invalid block", M)
  ELSE IF getChainTip(M.storage) = <<>> THEN Outcome(TRUE, "", M)
  ELSE AddBlockChoose(M, block, getChainTip(M.storage)[1],
                      shouldReorg(block, getChainTip(M.storage)[1]))

(***************************************************************************)
(* Specification SpecChain: a BlockchainManager after construction, its    *)
(* public methods called one at a time while the clock advances            *)
(***************************************************************************)
MaxChainOps == 3

ChainTxInputs ==
  { [from |-> Alice, to |-> Bob, value |-> 1, gasLimit |-> 10,
     gasPrice |-> p, nonce |-> 0, data |-> <<>>] : p \in {1, 2} }

\* Blocks received from other nodes: at heights 1 to 3, on the zero hash or
\* on the hash of the genesis block of second 0, empty or with one transfer.
ChainBlocks ==
  { [PeerBlock(h, n, ts, v) EXCEPT
       !.transactions = txs,
       !.header.gasUsed = SumGasLimit(txs),
       !.header.transactionsRoot = calculateTransactionsRoot(txs)] :
      h \in {ZeroHash, calculateBlockHash(createGenesisBlock(0))},
      n \in 1..3, ts \in 1..2, v \in {Alice, Bob},
      txs \in {<<>>} \cup { <<tx>> : tx \in ChainTxInputs } }

InitChain ==
  /\ world = NewWorld("level")
  /\ pool = EmptyPool
  /\ consensus = PoAConsensus(configValidators, configBlockTime)
  /\ storage = EmptyStorage
  /\ isInitialized = FALSE
  /\ preChain = Manager(world, pool, consensus, storage, isInitialized)
  /\ vm = <<>>
  /\ pre = world
  /\ prePool = pool
  /\ last = NoOp
  /\ snapObs = EmptyMap
  /\ steps = 0
  /\ clock = 0
  /\ mined = <<>>

\* A call of a manager method with outcome o.
ChainStep(o, l) ==
  /\ steps < MaxChainOps
  /\ steps' = steps + 1
  /\ preChain' = Manager(world, pool, consensus, storage, isInitialized)
  /\ pre' = world
  /\ prePool' = pool
  /\ world' = o.m.world
  /\ pool' = o.m.pool
  /\ consensus' = o.m.consensus
  /\ storage' = o.m.storage
  /\ isInitialized' = o.m.isInitialized
  /\ last' = [l EXCEPT !.ok = o.success, !.reason = o.error]
  /\ UNCHANGED <<snapObs, clock, mined, vm>>

Initialize ==
  ChainStep(initialize(Manager(world, pool, consensus, storage,
                               isInitialized), clock),
            [NoOp EXCEPT !.op = "initialize"])

ManagerAddTransaction ==
  \E tx \in ChainTxInputs :
    \E o \in managerAddTransaction(Manager(world, pool, consensus, storage,
                                           isInitialized), tx, clock) :
      ChainStep(o, [NoOp EXCEPT !.op = "addTransaction", !.tx = tx])

ManagerCreateBlock ==
  \E validatorAddress \in {<<>>, <<Alice>>, <<Bob>>} :
    ChainStep(managerCreateBlock(Manager(world, pool, consensus, storage,
                                         isInitialized),
                                 validatorAddress, clock),
              [NoOp EXCEPT !.op = "createBlock",
                           !.a = IF validatorAddress = <<>> THEN NullAddr
                                 ELSE validatorAddress[1]])

ManagerAddBlock ==
  \E block \in ChainBlocks :
    ChainStep(addBlock(Manager(world, pool, consensus, storage,
                               isInitialized), block, clock),
              [NoOp EXCEPT !.op = "addBlock", !.block = block])

\* A second passes.
ChainTick ==
  /\ clock < MaxClock + 1
  /\ clock' = clock + 1
  /\ last' = [NoOp EXCEPT !.op = "tick"]
  /\ UNCHANGED <<world, pre, snapObs, steps, pool, prePool, mined, chainVars>>

NextChain ==
  \/ Initialize
  \/ ManagerAddTransaction
  \/ ManagerCreateBlock
  \/ ManagerAddBlock
  \/ ChainTick

SpecChain == InitChain /\ [][NextChain]_vars

\* The block that the storage held, before the call, under the parentHash
\* of the received block has the number just below the received block's.
ParentStored(S, block) ==
  /\ block.header.parentHash \in DOMAIN S.blocks
  /\ S.blocks[block.header.parentHash].header.number
       = block.header.number - 1

C15_ReorgCompletes ==
  (/\ last.op = "shouldReorg"
   /\ last.block.header.number > last.tip.header.number + 1)
    => /\ last.reason = "reorg"
       /\ ~handleReorg(Manager(world, pool, consensus, storage, isInitialized),
                       last.block,
                       shouldReorg(last.block, last.tip)).thrown

(***************************************************************************)
(* Block production and the pool (SpecNode), continued.                    *)
(***************************************************************************)
\* C16: createBlock produces exactly one receipt for every transaction it
\* places in the block, in block order; a transaction whose execution fails
\* still has its receipt.
C16_OneReceiptPerTransaction ==
  (last.op = "createBlock" /\ last.ok) =>
    /\ Len(LastBlock.receipts) = Len(LastBlock.transactions)
    /\ \A i \in 1..Len(LastBlock.receipts) :
         i <= Len(LastBlock.transactions) =>
           LastBlock.receipts[i].transactionHash
             = calculateTransactionHash(LastBlock.transactions[i])

\* The gas recorded in a sequence of receipts.
ReceiptsGas(receipts) ==
  LET RECURSIVE Sum(_)
      Sum(i) == IF i = 0 THEN 0 ELSE receipts[i].gasUsed + Sum(i - 1)
  IN Sum(Len(receipts))

\* C17: in every block produced by createBlock, the header's gasUsed is the
\* sum of the gas used recorded in the block's receipts, and it is at most
\* the header's gasLimit.
C17_GasUsedIsReceiptsSum ==
  \A b \in 1..Len(mined) :
    /\ mined[b].gasUsed = ReceiptsGas(mined[b].receipts)
    /\ mined[b].gasUsed <= mined[b].gasLimit

\* createBlock has produced a block with two executed transactions.
C17_Witness ==
  /\ last.op = "createBlock"
  /\ Len(LastBlock.receipts) = 2
  /\ LastBlock.gasUsed > 0

InPool(P, h) == mapHas(P.pending, h) \/ mapHas(P.queued, h)

BlockHashes(block) ==
  {calculateTransactionHash(block.transactions[i]) :
     i \in 1..Len(block.transactions)}

\* C18: after a successful createBlock no transaction of the produced block
\* is pending or queued, and every entry the pool held that is not in the
\* block is still in the pool.
C18_BlockTransactionsLeavePool ==
  (last.op = "createBlock" /\ last.ok) =>
    /\ \A h \in BlockHashes(LastBlock) : ~InPool(pool, h)
    /\ \A e \in Entries(prePool.pending) \cup Entries(prePool.queued) :
         e.hash \notin BlockHashes(LastBlock) => InPool(pool, e.hash)
    /\ \A e \in Entries(pool.pending) \cup Entries(pool.queued) :
         InPool(prePool, e.hash)

\* createBlock has taken a transaction from a pool that keeps another one.
C18_Witness ==
  /\ last.op = "createBlock"
  /\ last.ok
  /\ Len(LastBlock.transactions) >= 1
  /\ \E e \in Entries(prePool.pending) \cup Entries(prePool.queued) :
       e.hash \notin BlockHashes(LastBlock) /\ InPool(pool, e.hash)

(***************************************************************************)
(* Specification SpecPool: the transaction pool alone.  Clients submit     *)
(* transactions, among them ones with a zero gas price, a zero gas limit   *)
(* and a gas limit above the block gas limit, while time passes.           *)
(***************************************************************************)
MaxPoolOps == 4

PoolTxInputs ==
  { [from |-> f, to |-> Bob, value |-> 1, gasLimit |-> 10, gasPrice |-> p,
     nonce |-> n, data |-> <<>>] :
      f \in {Alice, Bob}, p \in {1, 2}, n \in {0, 1} }
  \cup
  { [from |-> Alice, to |-> Bob, value |-> 1, gasLimit |-> g, gasPrice |-> p,
     nonce |-> 0, data |-> <<>>] :
      g \in {0, 10, blockGasLimit + 10}, p \in {0, 1} }

InitPool ==
  /\ world = GenesisWorld("mem")
  /\ pre = world
  /\ last = NoOp
  /\ snapObs = EmptyMap
  /\ steps = 0
  /\ pool = EmptyPool
  /\ prePool = EmptyPool
  /\ clock = 0
  /\ mined = <<>>
  /\ NoChain

PoolStep ==
  /\ steps < MaxPoolOps
  /\ steps' = steps + 1
  /\ prePool' = pool
  /\ UNCHANGED <<world, pre, snapObs, mined>>
  /\ UNCHANGED chainVars

PoolAddTransaction ==
  \E tx \in PoolTxInputs :
    \E r \in addTransaction(pool, tx, clock) :
      /\ PoolStep
      /\ pool' = r.p
      /\ last' = [NoOp EXCEPT !.op = "addTransaction", !.tx = tx,
                              !.ok = r.added, !.reason = r.reason]
      /\ UNCHANGED clock

\* A second passes on the pool's clock.
PoolTick ==
  /\ clock < MaxClock
  /\ PoolStep
  /\ clock' = clock + 1
  /\ last' = [NoOp EXCEPT !.op = "tick"]
  /\ UNCHANGED pool

NextPool ==
  \/ PoolAddTransaction
  \/ PoolTick

SpecPool == InitPool /\ [][NextPool]_vars

PoolEntries(P) == Entries(P.pending) \cup Entries(P.queued)

\* The entry the last addTransaction made for its transaction.
NewEntry == PoolTransaction(last.tx, clock, prePool.nextPriority)

\* The entries that were up for eviction in the last admission, and those
\* of them that left the pool.
Candidates == PoolEntries(prePool) \cup {NewEntry}

Evicted == {e \in Candidates : ~InPool(pool, e.hash)}

WithinGasBounds(tx) ==
  /\ tx.gasPrice >= minGasPrice
  /\ 0 < tx.gasLimit
  /\ tx.gasLimit <= blockGasLimit

\* C20: every transaction admitted by addTransaction has gasPrice >=
\* minGasPrice and 0 < gasLimit <= blockGasLimit; a transaction outside
\* these bounds (a zero gas price or a zero gas limit included) is rejected
\* and the pool is unchanged.
C20_AdmittedWithinGasBounds ==
  (last.op = "addTransaction") =>
    /\ last.ok => WithinGasBounds(last.tx)
    /\ ~WithinGasBounds(last.tx) => ~last.ok /\ pool = prePool

(***************************************************************************)
(* Selection of transactions for a block (SpecNode).                       *)
(***************************************************************************)
\* What getTransactionsForBlock returned to the last createBlock.
Selected == getTransactionsForBlock(prePool, optionsGasLimit)

EntriesGasLimit(es) ==
  LET RECURSIVE Sum(_)
      Sum(i) == IF i = 0 THEN 0 ELSE es[i].gasLimit + Sum(i - 1)
  IN Sum(Len(es))

\* C21: getTransactionsForBlock(G) returns only pending entries, ordered by
\* gas price descending and, among equal gas prices, by ascending admission
\* priority, and the sum of their gas limits is at most G; createBlock
\* places exactly these transactions in the block, in this order.
C21_SelectionOrderedWithinGas ==
  (last.op = "createBlock") =>
    /\ \A i \in 1..Len(Selected) : Selected[i] \in Entries(prePool.pending)
    /\ \A i, j \in 1..Len(Selected) :
         i < j => \/ Selected[i].gasPrice > Selected[j].gasPrice
                  \/ /\ Selected[i].gasPrice = Selected[j].gasPrice
                     /\ Selected[i].priority < Selected[j].priority
    /\ EntriesGasLimit(Selected) <= optionsGasLimit
    /\ LastBlock.transactions
         = [i \in 1..Len(Selected) |-> Selected[i].transaction]

\* createBlock has selected two transactions, the later admitted one first
\* because of its higher gas price, from a pool that held queued entries or
\* more pending gas than the block allows.
C21_Witness ==
  /\ last.op = "createBlock"
  /\ Len(Selected) = 2
  /\ Selected[1].gasPrice > Selected[2].gasPrice
  /\ Selected[1].priority > Selected[2].priority

(***************************************************************************)
(* Specification SpecSnapshots: nested checkpoints of the world state.     *)
(* A caller mutates the world, takes snapshots, commits and reverts them.  *)
(* snapObs remembers, for each snapshot id handed out, the world at that   *)
(* moment, whether the id has been reverted to, whether the caller still   *)
(* holds it (it was neither committed nor invalidated by a revert to an    *)
(* older id), and whether a younger snapshot has been committed since.     *)
(***************************************************************************)
MaxSnapOps == 6

SnapStep(w2, l) ==
  /\ steps < MaxSnapOps
  /\ steps' = steps + 1
  /\ pre' = world
  /\ world' = w2
  /\ last' = l
  /\ UNCHANGED <<pool, prePool, clock, mined>>
  /\ UNCHANGED chainVars

SnapAddBalance ==
  /\ SnapStep(addBalance(world, Alice, 1),
              [NoOp EXCEPT !.op = "addBalance", !.a = Alice, !.n = 1])
  /\ UNCHANGED snapObs

SnapSetStorage ==
  /\ SnapStep(setStorage(world, Alice, 0, 9),
              [NoOp EXCEPT !.op = "setStorage", !.a = Alice, !.n = 9])
  /\ UNCHANGED snapObs

SnapIncrementNonce ==
  /\ SnapStep(incrementNonce(world, Bob),
              [NoOp EXCEPT !.op = "incrementNonce", !.a = Bob])
  /\ UNCHANGED snapObs

SnapSnapshot ==
  /\ world.nextSnapshotId <= MaxSnapshots
  /\ LET r == snapshot(world)
     IN /\ SnapStep(r.w, [NoOp EXCEPT !.op = "snapshot", !.id = r.id])
        /\ snapObs' = Put(snapObs, r.id,
                          [w |-> r.w, reverted |-> FALSE, held |-> TRUE,
                           innerCommitted |-> FALSE])

\* The ids a caller gives up with commit(id), or with commit() for id = 0.
Discarded(W, id, i) ==
  IF id # 0 THEN i >= id ELSE i = W.currentSnapshotId

SnapCommit ==
  \E id \in 0..MaxSnapshots :
    /\ SnapStep(commit(world, id), [NoOp EXCEPT !.op = "commit", !.id = id])
    /\ snapObs' =
         [i \in DOMAIN snapObs |->
            IF Discarded(world, id, i)
            THEN [snapObs[i] EXCEPT !.held = FALSE]
            ELSE [snapObs[i] EXCEPT !.innerCommitted =
                    \/ @
                    \/ \E j \in DOMAIN snapObs :
                         j > i /\ snapObs[j].held /\ Discarded(world, id, j)]]

SnapRevert ==
  \E id \in 1..MaxSnapshots :
    LET r == revert(world, id)
        known == id \in DOMAIN snapObs /\ snapObs[id].held
    IN /\ SnapStep(r.w, [NoOp EXCEPT
                           !.op = "revert", !.id = id, !.ok = r.ok,
                           !.fresh = known /\ ~snapObs[id].reverted,
                           !.reason = IF known /\ snapObs[id].innerCommitted
                                      THEN "inner committed" ELSE ""])
       /\ snapObs' =
            [i \in DOMAIN snapObs |->
               IF i = id /\ r.ok THEN [snapObs[i] EXCEPT !.reverted = TRUE]
               ELSE IF i > id /\ r.ok THEN [snapObs[i] EXCEPT !.held = FALSE]
               ELSE snapObs[i]]

NextSnapshots ==
  \/ SnapAddBalance
  \/ SnapSetStorage
  \/ SnapIncrementNonce
  \/ SnapSnapshot
  \/ SnapCommit
  \/ SnapRevert

SpecSnapshots == InitWorld /\ [][NextSnapshots]_vars

\* C22: commit leaves every mutation made since the snapshot visible and
\* changes nothing observable, and neither does snapshot, so snapshot()
\* followed by commit() is a no-op; after an inner snapshot has been
\* committed, an outer snapshot taken earlier and not yet reverted to can
\* still be reverted, and that restores the state at its creation.
C22_CommitKeepsOuterSnapshot ==
  /\ last.op \in {"commit", "snapshot"} => SameWorld(world, pre)
  /\ (last.op = "revert" /\ last.fresh /\ last.reason = "inner committed")
       => /\ last.ok
          /\ SameWorld(world, snapObs[last.id].w)

\* An outer snapshot has been reverted after mutations, an inner snapshot,
\* more mutations and the inner snapshot's commit; the revert undid changes
\* of accounts and of storage.
C22_Witness ==
  /\ last.op = "revert" /\ last.ok /\ last.fresh
  /\ last.reason = "inner committed"
  /\ pre.accounts # world.accounts
  /\ getStorage(pre, Alice, 0) # getStorage(world, Alice, 0)

(***************************************************************************)
(* EvmHelper (src/src/evm/evmHelpers.ts)                                   *)
(***************************************************************************)
\* txExecutor.createTransaction with the default gas price, the nonce then
\* set by the helper to the sender's current nonce.
createTransaction(W, from, to, value, gasLimit) ==
  [from |-> from, to |-> to, value |-> value, gasLimit |-> gasLimit,
   gasPrice |-> 1, nonce |-> getNonce(W, from), data |-> <<>>]

\* EvmHelper.sendTransaction: thrown = TRUE is 'Sender account does not
\* exist'.
sendTransaction(W, from, to, value, gasLimit) ==
  LET r == executeTransaction(createTransaction(W, from, to, value, gasLimit), W)
  IN IF ~accountExists(W, from)
     THEN [thrown |-> TRUE, res |-> NoRes, vm |-> "none", w |-> W]
     ELSE [thrown |-> FALSE, res |-> r.res, vm |-> r.vm, w |-> r.w]

\* A call that commits its snapshot instead of reverting to it.
callCommitting(W, from, to, value, gasLimit) ==
  LET s == snapshot(W)
      r == executeTransaction(createTransaction(W, from, to, value, gasLimit),
                              s.w)
  IN IF ~accountExists(W, from)
     THEN [thrown |-> TRUE, res |-> NoRes, vm |-> "none", w |-> W]
     ELSE [thrown |-> FALSE, res |-> r.res, vm |-> r.vm, w |-> commit(r.w, s.id)]

\* EvmHelper.call: snapshot, executeTransaction, revert to the snapshot.
\* thrown = TRUE is 'Sender account does not exist', raised before the
\* snapshot, or the revert's 'Snapshot not found'.
call(W, from, to, value, gasLimit) ==
  LET s    == snapshot(W)
      r    == executeTransaction(createTransaction(W, from, to, value, gasLimit),
                                 s.w)
      back == revert(r.w, s.id)
  IN IF ~accountExists(W, from)
     THEN [thrown |-> TRUE, res |-> NoRes, vm |-> "none", w |-> W]
     ELSE [thrown |-> ~back.ok, res |-> r.res, vm |-> r.vm, w |-> back.w]

(***************************************************************************)
(* Specification SpecHelper: an EvmHelper on the genesis world, used for   *)
(* state-changing transactions and for read-only calls.                    *)
(***************************************************************************)
MaxHelperOps == 3

HelperInputs ==
  { [from |-> f, to |-> t, value |-> v, gasLimit |-> 30000] :
      f \in {Alice, Carol}, t \in {Bob, StoreContract, RevertContract},
      v \in {0, 1} }
  \cup {[from |-> Alice, to |-> StoreContract, value |-> 0, gasLimit |-> 10]}

\* last.n counts the calls made in a row.
HelperStep(r, op, i) ==
  /\ steps < MaxHelperOps
  /\ steps' = steps + 1
  /\ pre' = world
  /\ world' = r.w
  /\ last' = [NoOp EXCEPT
                !.op = op, !.ok = ~r.thrown, !.res = r.res, !.vm = r.vm,
                !.a = i.to,
                !.tx = createTransaction(world, i.from, i.to, i.value, i.gasLimit),
                !.n = IF op = "call" /\ last.op = "call" THEN last.n + 1 ELSE 1]
  /\ UNCHANGED <<snapObs, pool, prePool, clock, mined>>
  /\ UNCHANGED chainVars

SendTransaction ==
  \E i \in HelperInputs :
    HelperStep(sendTransaction(world, i.from, i.to, i.value, i.gasLimit),
               "sendTransaction", i)

Call ==
  \E i \in HelperInputs :
    HelperStep(call(world, i.from, i.to, i.value, i.gasLimit), "call", i)

NextHelper ==
  \/ SendTransaction
  \/ Call

SpecHelper == InitExec /\ [][NextHelper]_vars

\* C23: EvmHelper.call leaves the world state unchanged: after the call
\* every account's balance, nonce and code and every storage slot are what
\* they were before it, whether the execution succeeded or failed, and also
\* when call is invoked repeatedly.
C23_CallLeavesWorldUnchanged ==
  (last.op = "call") =>
    /\ world.accounts = pre.accounts
    /\ SameWorld(world, pre)

\* A second call in a row whose execution stored a value and succeeded,
\* after a transaction had changed the world.
C23_Witness ==
  /\ last.op = "call"
  /\ last.n = 2
  /\ steps = 3
  /\ last.ok
  /\ last.res.success
  /\ last.a = StoreContract
  /\ last.tx.value = 1
  /\ last.tx.nonce = 1

\* A call whose execution failed in the VM.
C23_WitnessFailed ==
  /\ last.op = "call"
  /\ last.ok
  /\ ~last.res.success
  /\ last.vm \in VmErrors

(***************************************************************************)
(* Block header encoding, byte by byte (src/src/blockchain/utils.ts).      *)
(* A byte array is a sequence of numbers below 256; slicing counts from 0  *)
(* and clamps to the array as Uint8Array.slice does.  A header here holds  *)
(* byte arrays for its hashes, validator, signature and extraData and      *)
(* numbers for number, timestamp, gasLimit and gasUsed.                    *)
(***************************************************************************)
Fill(n, b) == [i \in 1..n |-> b]

slice(data, start, end) ==
  LET to == IF end < Len(data) THEN end ELSE Len(data)
  IN IF start >= to THEN <<>> ELSE SubSeq(data, start + 1, to)

\* bigintToBytes(value, length): the value in hexadecimal, padded on the
\* left to length bytes.
RECURSIVE bigintToBytes(_, _)
bigintToBytes(value, length) ==
  IF length = 0 /\ value = 0 THEN <<>>
  ELSE bigintToBytes(value \div 256, IF length = 0 THEN 0 ELSE length - 1)
         \o <<value % 256>>

RECURSIVE BytesValue(_)
BytesValue(bytes) ==
  IF bytes = <<>> THEN 0
  ELSE 256 * BytesValue(SubSeq(bytes, 1, Len(bytes) - 1)) + bytes[Len(bytes)]

\* What reading a missing array element gives: no byte array at all.
Undefined == <<-1>>

\* bytesToBigint is BigInt('0x' + hex digits): BigInt('0x') is a
\* SyntaxError and Array.from(undefined) a TypeError.
bytesToBigintThrows(bytes) == bytes = Undefined \/ bytes = <<>>

bytesToBigint(bytes) == BytesValue(bytes)

\* RLP.lengthToBytes
RECURSIVE lengthToBytes(_)
lengthToBytes(length) ==
  IF length = 0 THEN <<>>
  ELSE lengthToBytes(length \div 256) \o <<length % 256>>

RECURSIVE concatBytes(_)
concatBytes(arrays) ==
  IF arrays = <<>> THEN <<>> ELSE Head(arrays) \o concatBytes(Tail(arrays))

\* RLP.encodeList: the items are concatenated as they are, behind a list
\* prefix.
encodeList(items) ==
  LET concatenated == concatBytes(items)
      length       == Len(concatenated)
      lengthBytes  == lengthToBytes(length)
  IN IF length < 56 THEN <<192 + length>> \o concatenated
     ELSE <<247 + Len(lengthBytes)>> \o lengthBytes \o concatenated

\* serializeBlockHeader, down to the bytes.
serializeBlockHeaderBytes(header) ==
  encodeList(<<header.parentHash,
               bigintToBytes(header.number, 32),
               bigintToBytes(header.timestamp, 32),
               header.stateRoot,
               header.transactionsRoot,
               header.receiptsRoot,
               header.validator,
               header.signature,
               bigintToBytes(header.gasLimit, 32),
               bigintToBytes(header.gasUsed, 32),
               header.extraData>>)

fieldSizes == <<32, 32, 32, 32, 32, 32, 20, 65, 32, 32>>

\* decodeRLPList: the list's length is read off the first byte alone, the
\* first nine fields are cut at the offsets of fieldSizes and one last field
\* takes the rest.
decodeRLPList(data) ==
  LET length   == data[1] - 192
      listData == slice(data, 1, 1 + length)
      RECURSIVE Offset(_)
      Offset(i) == IF i = 1 THEN 0 ELSE Offset(i - 1) + fieldSizes[i - 1]
      fixed == [i \in 1..(Len(fieldSizes) - 1) |->
                  slice(listData, Offset(i), Offset(i) + fieldSizes[i])]
  IN IF data # <<>> /\ data[1] >= 192
     THEN [thrown |-> FALSE,
           fields |-> Append(fixed,
                             slice(listData, Offset(Len(fieldSizes)),
                                   Len(listData)))]
     ELSE [thrown |-> TRUE, fields |-> <<>>]

NoHeader == NoBlock.header

\* deserializeBlockHeader: thrown = TRUE when decodeRLPList or one of the
\* four bytesToBigint calls throws.
deserializeBlockHeader(data) ==
  LET d == decodeRLPList(data)
      field(i) == IF i + 1 <= Len(d.fields) THEN d.fields[i + 1] ELSE Undefined
  IN IF \/ d.thrown
        \/ \E i \in {1, 2, 8, 9} : bytesToBigintThrows(field(i))
     THEN [thrown |-> TRUE, header |-> NoHeader]
     ELSE [thrown |-> FALSE,
           header |-> [parentHash |-> field(0),
                       number |-> bytesToBigint(field(1)),
                       timestamp |-> bytesToBigint(field(2)),
                       stateRoot |-> field(3),
                       transactionsRoot |-> field(4),
                       receiptsRoot |-> field(5),
                       validator |-> field(6),
                       signature |-> field(7),
                       gasLimit |-> bytesToBigint(field(8)),
                       gasUsed |-> bytesToBigint(field(9)),
                       extraData |-> field(10)]]

(***************************************************************************)
(* Specification SpecCodec: a block header is drawn, then encoded and      *)
(* decoded again.                                                          *)
(***************************************************************************)
MaxExtraData == 1

CodecHeaders ==
  { [parentHash |-> Fill(32, p), number |-> n, timestamp |-> n + 1,
     stateRoot |-> Fill(32, 1), transactionsRoot |-> Fill(32, 2),
     receiptsRoot |-> Fill(32, 3), validator |-> Fill(20, v),
     signature |-> sig, gasLimit |-> 30000000, gasUsed |-> g,
     extraData |-> Fill(x, 7)] :
      p \in {0, 255}, n \in {0, 1, 300}, v \in {Alice, Bob},
      sig \in {<<>>, Fill(65, 9)}, g \in {0, 21000}, x \in 0..MaxExtraData }

InitCodec ==
  /\ world = NewWorld("mem")
  /\ pre = world
  /\ last \in {[NoOp EXCEPT !.op = "header", !.block.header = h] :
                 h \in CodecHeaders}
  /\ snapObs = EmptyMap
  /\ steps = 0
  /\ pool = EmptyPool
  /\ prePool = EmptyPool
  /\ clock = 0
  /\ mined = <<>>
  /\ NoChain

DeserializeSerialized ==
  /\ last.op = "header"
  /\ LET r == deserializeBlockHeader(serializeBlockHeaderBytes(last.block.header))
     IN last' = [last EXCEPT !.op = "deserializeBlockHeader",
                             !.ok = ~r.thrown,
                             !.tip.header = r.header]
  /\ UNCHANGED <<world, pre, snapObs, steps, pool, prePool, clock, mined>>
  /\ UNCHANGED chainVars

NextCodec == DeserializeSerialized

SpecCodec == InitCodec /\ [][NextCodec]_vars

\* C24: for every block header h, deserializeBlockHeader applied to
\* serializeBlockHeader(h) returns a header equal to h in every field.
C24_HeaderRoundTrip ==
  (last.op = "deserializeBlockHeader") =>
    /\ last.ok
    /\ last.tip.header = last.block.header

(***************************************************************************)
(* Specification SpecLive: clients submit transactions to a node whose     *)
(* block production keeps running.  The node produces one block per block *)
(* interval, and the clock counts these intervals; the number of blocks is *)
(* capped, as every block takes a new snapshot id.  Block production is    *)
(* weakly fair: while another block is due, one is eventually produced.    *)
(* The fairness condition is stated on the clock, which block production   *)
(* alone advances.                                                         *)
(***************************************************************************)
MaxLiveTxs == 2

MaxBlocks == 4

LiveTxInputs ==
  { [from |-> Alice, to |-> Bob, value |-> 1, gasLimit |-> g, gasPrice |-> p,
     nonce |-> n, data |-> <<>>] :
      g \in {10, 20}, p \in {1, 2}, n \in {0, 1} }

LiveAddTransaction ==
  \E tx \in LiveTxInputs :
    \E r \in addTransaction(pool, tx, clock) :
      /\ steps < MaxLiveTxs
      /\ steps' = steps + 1
      /\ pre' = world
      /\ prePool' = pool
      /\ pool' = r.p
      /\ last' = [NoOp EXCEPT !.op = "addTransaction", !.tx = tx,
                              !.ok = r.added, !.reason = r.reason]
      /\ UNCHANGED <<world, clock, mined, snapObs>>
      /\ UNCHANGED chainVars

LiveCreateBlock ==
  \E r \in {createBlock(world, pool)} :
     /\ clock < MaxBlocks
     /\ clock' = clock + 1
     /\ pre' = world
     /\ prePool' = pool
     /\ world' = r.w
     /\ pool' = r.p
     /\ mined' = Append(mined, [transactions |-> r.block.transactions,
                                gasLimit |-> r.block.gasLimit,
                                gasUsed |-> r.block.gasUsed,
                                receipts |-> r.receipts])
     /\ last' = [NoOp EXCEPT !.op = "createBlock", !.ok = r.success]
     /\ UNCHANGED <<steps, snapObs>>
     /\ UNCHANGED chainVars

NextLive ==
  \/ LiveAddTransaction
  \/ LiveCreateBlock

\* The step of the clock that a block production makes.
BlockInterval == clock < MaxBlocks /\ clock' = clock + 1

SpecLive == InitNode /\ [][NextLive]_vars /\ WF_clock(BlockInterval)

\* tx has just been admitted, it is valid against the account state (its
\* nonce is the sender's account nonce, the balance covers value and gas),
\* and at least two more blocks will be produced.
SubmittedValid(tx) ==
  /\ last.op = "addTransaction"
  /\ last.ok
  /\ last.tx = tx
  /\ ValidIn(world, tx)
  /\ tx.gasPrice >= minGasPrice
  /\ clock + 2 <= MaxBlocks

\* tx is in a produced block that also holds its receipt.
IncludedAndExecuted(tx) ==
  \E b \in 1..Len(mined) :
    /\ \E i \in 1..Len(mined[b].transactions) : mined[b].transactions[i] = tx
    /\ \E i \in 1..Len(mined[b].receipts) :
         /\ mined[b].receipts[i].transactionHash = calculateTransactionHash(tx)
         /\ mined[b].receipts[i].status = 1

NodeConsensus == PoAConsensus(configValidators, configBlockTime)

\* The validator that isValidValidator accepts for blockNumber.
ExpectedValidator(C, blockNumber) ==
  getActiveValidators(C)[(blockNumber % Len(getActiveValidators(C))) + 1].address

RECURSIVE OwnBlock(_)
OwnBlock(k) ==
  IF k = 0 THEN createGenesisBlock(0)
  ELSE ProcessedBlock([block |-> [transactions |-> mined[k].transactions,
                                  gasLimit |-> mined[k].gasLimit,
                                  gasUsed |-> mined[k].gasUsed],
                       receipts |-> mined[k].receipts],
                      OwnBlock(k - 1),
                      ExpectedValidator(NodeConsensus, k),
                      k * configBlockTime)

\* validateBlock on the block just produced, against its parent and the
\* world as it was before the block.
OwnBlockVerdict ==
  validateBlock(NodeConsensus, pre, OwnBlock(Len(mined)),
                <<OwnBlock(Len(mined) - 1)>>, Len(mined) * configBlockTime)

\* C26: every block produced by createBlock on the current tip, by the
\* expected validator and at least blockTime seconds after the parent, is
\* accepted by validateBlock against that parent and the pre-block world.
C26_OwnBlocksValidate ==
  (last.op = "createBlock") => OwnBlockVerdict = "valid"



C29_RevertAgainRestoresSnapshot ==
  (/\ last.op = "revert"
   /\ last.ok
   /\ ~last.fresh
   /\ last.id \in DOMAIN snapObs
   /\ snapObs[last.id].held)
  => SameWorld(world, snapObs[last.id].w)



\* The pending entries of sender f hold consecutive nonces that start at
\* f's account nonce, there are at least two of them, the whole of pending
\* fits in the block, and f can pay for all of them.
ConsecutivePending(P, W, f) ==
  LET own == SelectSeq(P.pending, LAMBDA e : e.sender = f)
      RECURSIVE Cost(_)
      Cost(i) == IF i = 0 THEN 0
                 ELSE own[i].gasLimit * own[i].gasPrice
                        + own[i].transaction.value
                        + Cost(i - 1)
  IN /\ Len(own) >= 2
     /\ {own[i].nonce : i \in 1..Len(own)}
          = getNonce(W, f)..(getNonce(W, f) + Len(own) - 1)
     /\ EntriesGasLimit(P.pending) <= optionsGasLimit
     /\ getBalance(W, f) >= Cost(Len(own))

\* C30: when several transactions of one sender with consecutive nonces are
\* pending together, createBlock executes them in ascending nonce order, so
\* all of them execute successfully in the same block whatever their gas
\* prices, given sufficient balance and block gas.
C30_ConsecutiveNoncesExecuteInOrder ==
  \A f \in {Alice, Bob} :
    (last.op = "createBlock" /\ ConsecutivePending(prePool, pre, f))
    => /\ \A i, j \in 1..Len(LastBlock.transactions) :
            (/\ i < j
             /\ LastBlock.transactions[i].from = f
             /\ LastBlock.transactions[j].from = f)
            => LastBlock.transactions[i].nonce < LastBlock.transactions[j].nonce
       /\ \A i \in 1..Len(prePool.pending) :
            prePool.pending[i].sender = f
            => \E k \in 1..Len(LastBlock.receipts) :
                 /\ LastBlock.receipts[k].transactionHash
                      = prePool.pending[i].hash
                 /\ LastBlock.receipts[k].status = 1



\* C31: across any sequence of addTransaction and createBlock calls on one
\* node, a transaction that has been placed in a block is never placed in a
\* later block, even when it is submitted to the pool again after its
\* inclusion.
C31_NoTransactionInTwoBlocks ==
  \A b1, b2 \in 1..Len(mined) :
    b1 < b2 =>
      \A i \in 1..Len(mined[b1].transactions) :
        \A j \in 1..Len(mined[b2].transactions) :
          mined[b1].transactions[i] # mined[b2].transactions[j]



\* C32: whenever addTransaction returns added = true, the submitted
\* transaction is in the pool, pending or queued, when the call returns.
C32_AddedMeansInPool ==
  (last.op = "addTransaction" /\ last.ok)
  => InPool(pool, calculateTransactionHash(last.tx))



(***************************************************************************)
(* Specification SpecPoolCalls: every mutating method of the pool, called  *)
(* in any order while time passes.                                         *)
(***************************************************************************)
MaxPoolCalls == 4

PoolCallInputs ==
  { [from |-> f, to |-> Bob, value |-> 1, gasLimit |-> 10, gasPrice |-> p,
     nonce |-> n, data |-> <<>>] :
      f \in {Alice, Bob}, p \in {1, 2}, n \in {0, 1, 2} }

\* The hash lists handed to removeTransactions: one or two hashes, of
\* entries of the pool or of a transaction the pool does not hold.
RemovableHashes ==
  {e.hash : e \in Entries(pool.pending) \cup Entries(pool.queued)}
    \cup {calculateTransactionHash(CHOOSE tx \in PoolCallInputs : TRUE)}

HashLists ==
  {<<h>> : h \in RemovableHashes}
    \cup {<<h1, h2>> : h1 \in RemovableHashes, h2 \in RemovableHashes}

PoolCall(p2, l) ==
  /\ steps < MaxPoolCalls
  /\ steps' = steps + 1
  /\ prePool' = pool
  /\ pool' = p2
  /\ last' = l
  /\ UNCHANGED <<world, pre, snapObs, mined, clock>>
  /\ UNCHANGED chainVars

CallAddTransaction ==
  \E tx \in PoolCallInputs :
    \E r \in addTransaction(pool, tx, clock) :
      PoolCall(r.p, [NoOp EXCEPT !.op = "addTransaction", !.tx = tx,
                                 !.ok = r.added, !.reason = r.reason])

CallRemoveTransactions ==
  \E hashes \in HashLists :
    PoolCall(removeTransactions(pool, hashes),
             [NoOp EXCEPT !.op = "removeTransactions", !.n = Len(hashes)])

CallRemoveOldTransactions ==
  \E p2 \in {removeOldTransactions(pool, clock)} :
    PoolCall(p2, [NoOp EXCEPT !.op = "removeOldTransactions"])

CallClear ==
  /\ steps < MaxPoolCalls
  /\ PoolCall(clear(pool), [NoOp EXCEPT !.op = "clear"])

\* A second passes on the pool's clock.
CallTick ==
  /\ clock < MaxClock
  /\ clock' = clock + 1
  /\ last' = [NoOp EXCEPT !.op = "tick"]
  /\ UNCHANGED <<world, pre, snapObs, steps, pool, prePool, mined>>
  /\ UNCHANGED chainVars

NextPoolCalls ==
  \/ CallAddTransaction
  \/ CallRemoveTransactions
  \/ CallRemoveOldTransactions
  \/ CallClear
  \/ CallTick

SpecPoolCalls == InitPool /\ [][NextPoolCalls]_vars

\* C33: in every reachable pool state pending and queued share no
\* transaction hash, and for every sender the per-account index lists
\* exactly the pool entries of that sender, each once, and at most
\* maxAccountTransactions of them.
C33_PoolIndexConsistent ==
  /\ \A i \in 1..Len(pool.pending) : ~mapHas(pool.queued, pool.pending[i].hash)
  /\ \A f \in {Alice, Bob} :
       LET listed == getAccountTransactions(pool, f)
       IN /\ Entries(listed) = {e \in PoolEntries(pool) : e.sender = f}
          /\ Cardinality(Entries(listed)) = Len(listed)
          /\ Len(listed) <= maxAccountTransactions
  /\ DOMAIN pool.accountTransactions \subseteq {Alice, Bob}

\* removeTransactions has taken one of a sender's two entries out of a
\* pool that holds a queued entry.
C33_Witness ==
  /\ last.op = "removeTransactions"
  /\ Len(pool.queued) > 0
  /\ \E f \in {Alice, Bob} :
       /\ Len(getAccountTransactions(prePool, f)) = 2
       /\ Len(getAccountTransactions(pool, f)) = 1



\* The validator that updateMissedBlocks expects for block number N: none
\* when no validator is active.
ExpectedFor(C, N) ==
  IF getActiveValidators(C) = <<>> THEN {}
  ELSE {ExpectedValidator(C, N)}

\* C34: updateValidatorState for a block at height N > 0 sets the
\* producer's missedBlocks to 0 and its lastBlockNumber to N, increments by
\* one the missedBlocks of exactly the validator expected for N when that
\* validator is not the producer, and leaves the counters and active flags
\* of all other validators unchanged.
C34_UpdateValidatorStateFrame ==
  [][ (last'.op = "updateValidatorState" /\ last'.n > 0) =>
        /\ Len(consensus'.validators) = Len(consensus.validators)
        /\ \A i \in 1..Len(consensus.validators) :
             LET v == consensus.validators[i]
                 w == consensus'.validators[i]
             IN /\ w.address = v.address
                /\ v.address = last'.a =>
                     /\ w.missedBlocks = 0
                     /\ w.lastBlockNumber = last'.n
                /\ (v.address # last'.a
                      /\ v.address \in ExpectedFor(consensus, last'.n)) =>
                     /\ w.missedBlocks = v.missedBlocks + 1
                     /\ w.lastBlockNumber = v.lastBlockNumber
                /\ (v.address # last'.a
                      /\ v.address \notin ExpectedFor(consensus, last'.n)) =>
                     w = v ]_vars

\* A block was reported whose expected validator was not its producer: the
\* expected validator has a missed block, a third validator has none.
C34_Witness ==
  /\ last.op = "updateValidatorState"
  /\ last.ok
  /\ Len(consensus.validators) = 3
  /\ \E i, j \in 1..Len(consensus.validators) :
       /\ consensus.validators[i].address \notin {last.a}
       /\ consensus.validators[i].missedBlocks = 1
       /\ consensus.validators[j].address \notin {last.a}
       /\ consensus.validators[j].missedBlocks = 0
       /\ consensus.validators[j].isActive

(***************************************************************************)
(* Evm.execute, instruction by instruction                                 *)
(***************************************************************************)
MaxVmSteps == 12

\* The operands of the arithmetic programs: small, middle and largest words.
VmOperands == {0, 1, 2, 3, 16, WordModulus - 1}

\* PUSH1 b, PUSH1 a, op: the handler pops a first.
VmArithmeticCode ==
  {<<OP_PUSH1, b, OP_PUSH1, a, op>> :
     a \in VmOperands, b \in VmOperands, op \in ArithmeticOpcodes}

\* PUSH1 d, JUMP, JUMPDEST, PUSH1 0x5b, STOP: index 3 holds a JUMPDEST
\* instruction, index 5 the same byte as the immediate data of the PUSH1.
VmJumpCode ==
  {<<OP_PUSH1, d, OP_JUMP, OP_JUMPDEST, OP_PUSH1, OP_JUMPDEST, OP_STOP>> :
     d \in 0..8}

\* PUSH1 c, PUSH1 d, JUMPI, JUMPDEST, PUSH1 0x5b, STOP: the same with a
\* condition; index 5 is the instruction, index 7 the data.
VmJumpiCode ==
  {<<OP_PUSH1, c, OP_PUSH1, d, OP_JUMPI, OP_JUMPDEST, OP_PUSH1, OP_JUMPDEST,
     OP_STOP>> : c \in {0, 1}, d \in {0, 5, 6, 7, 9}}

\* JUMPDEST, PUSH1 0, JUMP: a loop without an exit.
VmLoopCode == <<OP_JUMPDEST, OP_PUSH1, 0, OP_JUMP>>

\* CALLDATACOPY(0, 0, 2) and then CALLDATACOPY(dest, off, n), STOP.
VmCopyCode ==
  {<<OP_PUSH1, 2, OP_PUSH1, 0, OP_PUSH1, 0, OP_CALLDATACOPY,
     OP_PUSH1, n, OP_PUSH1, off, OP_PUSH1, dest, OP_CALLDATACOPY, OP_STOP>> :
     n \in 0..2, off \in 0..2, dest \in 0..1}

VmStoreCode == {CodeStore, CodeStoreRevert, CodeStoreInvalid, CodeStoreBadJump}

VmCode ==
  VmArithmeticCode \cup VmJumpCode \cup VmJumpiCode \cup {VmLoopCode}
    \cup VmCopyCode \cup VmStoreCode

VmCalldata(code) == IF code \in VmCopyCode THEN {<<>>, <<7, 8>>} ELSE {<<>>}

\* The gas limits of a run: none, too little for the program, enough for
\* it, and for the programs that store, enough for an SSTORE.
VmGasLimits(code) ==
  IF code \in VmStoreCode THEN {30, 20030} ELSE {0, 4, 30}

VmEnv ==
  [address |-> StoreContract, caller |-> Alice, origin |-> Alice,
   value |-> 0, gasPrice |-> 1]

\* The world of a run: the caller has a storage slot of its own.
VmWorld == setStorage(GenesisWorld("mem"), Alice, 0, 7)

\* The loop of Evm.execute has ended: an error was thrown, the context
\* stopped or the pc left the code.
Halted(v) == v.thrown \/ v.ctx.stopped \/ v.ctx.pc >= Len(v.ctx.code)

\* The call of Evm.execute, up to the loop.
InitVm ==
  /\ world = VmWorld
  /\ pre = world
  /\ \E code \in VmCode :
       \E gasLimit \in VmGasLimits(code), calldata \in VmCalldata(code) :
         /\ vm = Done(NewContext(code, world, VmEnv, gasLimit, calldata))
         /\ last = [NoOp EXCEPT !.op = "execute", !.n = gasLimit]
  /\ snapObs = EmptyMap
  /\ steps = 0
  /\ pool = EmptyPool
  /\ prePool = EmptyPool
  /\ clock = 0
  /\ mined = <<>>
  /\ consensus = <<>>
  /\ storage = <<>>
  /\ isInitialized = FALSE
  /\ preChain = <<>>

\* One pass through the loop.
VmStep ==
  /\ last.op = "execute"
  /\ ~Halted(vm)
  /\ steps < MaxVmSteps
  /\ vm' = Iteration(vm.ctx)
  /\ world' = vm'.ctx.w
  /\ steps' = steps + 1
  /\ UNCHANGED <<pre, last, snapObs, pool, prePool, clock, mined, consensus,
                 storage, isInitialized, preChain>>

\* The loop has ended and execute returns its ExecutionResult.
VmReturn ==
  /\ last.op = "execute"
  /\ Halted(vm)
  /\ last' = [last EXCEPT
                !.op = "result",
                !.ok = ExecutionResult(vm, last.n).success,
                !.vm = ExecutionResult(vm, last.n).err,
                !.res = [success |-> ExecutionResult(vm, last.n).success,
                         gasUsed |-> ExecutionResult(vm, last.n).gasUsed,
                         returnData |->
                           ExecutionResult(vm, last.n).returnData]]
  /\ UNCHANGED <<world, pre, snapObs, steps, pool, prePool, clock, mined,
                 consensus, storage, isInitialized, preChain, vm>>

NextVm == VmStep \/ VmReturn

\* The loop runs on until it ends: nothing else is scheduled.
SpecVm == InitVm /\ [][NextVm]_vars /\ WF_vars(VmStep) /\ WF_vars(VmReturn)

\* The loop, taken pass by pass, returns what execute returns.
VmAgreesWithExecute ==
  last.op = "result" =>
    /\ last.res.success =
         execute(vm.ctx.code, pre, VmEnv, last.n, vm.ctx.calldata).success
    /\ last.res.gasUsed =
         execute(vm.ctx.code, pre, VmEnv, last.n, vm.ctx.calldata).gasUsed
    /\ world = execute(vm.ctx.code, pre, VmEnv, last.n, vm.ctx.calldata).w

\* The indices of the code at which an instruction begins, the immediate
\* data of a PUSH1 being no instruction.
RECURSIVE InstructionStartsFrom(_, _)
InstructionStartsFrom(code, i) ==
  IF i >= Len(code) THEN {}
  ELSE {i} \cup InstructionStartsFrom(code, IF code[i + 1] = OP_PUSH1
                                            THEN i + 2 ELSE i + 1)

InstructionStarts(code) == InstructionStartsFrom(code, 0)

\* The instruction the context is about to run.
CurrentOpcode(ctx) == ctx.code[ctx.pc + 1]

\* The context is about to run a JUMP, or a JUMPI whose condition is not
\* zero, with its operands on the stack and its gas at hand.
JumpAttempt(ctx) ==
  \/ /\ CurrentOpcode(ctx) = OP_JUMP
     /\ Len(ctx.stack) >= 1
     /\ ctx.gasLeft >= GAS_COSTS(OP_JUMP)
  \/ /\ CurrentOpcode(ctx) = OP_JUMPI
     /\ Len(ctx.stack) >= 2
     /\ Peek(ctx, 1) # 0
     /\ ctx.gasLeft >= GAS_COSTS(OP_JUMPI)

ValidJumpTarget(code, d) ==
  /\ d \in 0..(Len(code) - 1)
  /\ code[d + 1] = OP_JUMPDEST
  /\ d \in InstructionStarts(code)

\* C35: a JUMP, or a JUMPI whose condition is not zero, moves the pc to its
\* target when the target lies inside the code and is a JUMPDEST instruction
\* that is not immediate data of a PUSH, and for every other target the
\* execution ends with the failure of an invalid jump.
C35_JumpOnlyToJumpdestInstruction ==
  [][(steps' = steps + 1 /\ JumpAttempt(vm.ctx)) =>
       IF ValidJumpTarget(vm.ctx.code, Peek(vm.ctx, 0))
       THEN ~vm'.thrown /\ vm'.ctx.pc = Peek(vm.ctx, 0)
       ELSE vm'.thrown /\ vm'.ctx.err = "invalid jump"]_vars

\* The instruction the context is about to run costs more gas than is left.
CostExceedsGas(ctx) ==
  /\ CurrentOpcode(ctx) \in ModelledOpcodes
  /\ GAS_COSTS(CurrentOpcode(ctx)) > ctx.gasLeft

\* C36: the gasUsed that execute reports never exceeds the gas limit it was
\* given, and an instruction that costs more than the gas left changes
\* neither stack nor memory nor storage and ends the execution with the
\* failure of running out of gas.
C36_GasWithinLimitAndChargedFirst ==
  [][/\ last'.op = "result" =>
          /\ last'.res.gasUsed >= 0
          /\ last'.res.gasUsed <= last.n
          /\ vm.ctx.err = "out of gas" => ~last'.res.success
     /\ (steps' = steps + 1 /\ CostExceedsGas(vm.ctx)) =>
          /\ vm'.thrown
          /\ vm'.ctx.err = "out of gas"
          /\ vm'.ctx.stack = vm.ctx.stack
          /\ vm'.ctx.memory = vm.ctx.memory
          /\ vm'.ctx.w = vm.ctx.w
          /\ vm'.ctx.gasLeft = vm.ctx.gasLeft]_vars

\* An SSTORE found 24 units of gas left: the execution has failed after the
\* two PUSH1, the slot is as it was.
C36_Witness ==
  /\ last.op = "result"
  /\ vm.ctx.code = CodeStore
  /\ vm.ctx.err = "out of gas"
  /\ vm.ctx.stack = <<42, 0>>
  /\ last.res.gasUsed = 2 * GAS_COSTS(OP_PUSH1)
  /\ ~last.res.success
  /\ getStorage(world, StoreContract, 0) = 0

\* C37: Evm.execute terminates for every bytecode, calldata and gas limit:
\* it returns its result in the end, since every instruction that neither
\* fails nor stops the execution takes at least one unit of the gas left.
C37_ExecuteTerminates ==
  /\ <>(last.op = "result")
  /\ [][(steps' = steps + 1 /\ ~vm'.thrown /\ ~vm'.ctx.stopped) =>
          vm'.ctx.gasLeft <= vm.ctx.gasLeft - 1]_vars

\* The loop without an exit went round more than twice and has returned,
\* out of gas.
C37_Witness ==
  /\ last.op = "result"
  /\ vm.ctx.code = VmLoopCode
  /\ steps > 2 * Len(VmLoopCode)
  /\ vm.ctx.err = "out of gas"
  /\ ~last.res.success

\* The byte of the memory at an offset, zero where the memory was never
\* touched.
MemAt(mem, j) == IF j < Len(mem) THEN mem[j + 1] ELSE 0

\* The byte of the calldata at an offset, zero beyond its end.
CalldataAt(ctx, j) == IF j < Len(ctx.calldata) THEN ctx.calldata[j + 1] ELSE 0

\* The context is about to run a CALLDATACOPY with its operands on the
\* stack and its gas at hand.
CopyAttempt(ctx) ==
  /\ CurrentOpcode(ctx) = OP_CALLDATACOPY
  /\ Len(ctx.stack) >= 3
  /\ ctx.gasLeft >= GAS_COSTS(OP_CALLDATACOPY)

\* C38: CALLDATACOPY(dest, off, n) leaves in memory[dest .. dest+n) the
\* bytes calldata[off .. off+n), a zero standing for every position beyond
\* the end of the calldata.
C38_CalldatacopyPadsWithZeros ==
  [][(steps' = steps + 1 /\ CopyAttempt(vm.ctx)) =>
       /\ ~vm'.thrown
       /\ \A i \in 0..(Peek(vm.ctx, 2) - 1) :
            MemAt(vm'.ctx.memory, Peek(vm.ctx, 0) + i) =
              CalldataAt(vm.ctx, Peek(vm.ctx, 1) + i)]_vars

\* a to the power b modulo the word modulus, by
\* a^b = (a^(b div 2))^2 * a^(b mod 2), reduced after every multiplication.
RECURSIVE PowerModWord(_, _)
PowerModWord(a, b) ==
  IF b = 0 THEN 1 % WordModulus
  ELSE LET h == PowerModWord(a, b \div 2)
       IN (((h * h) % WordModulus) * (IF b % 2 = 1 THEN a ELSE 1)) % WordModulus

\* What the arithmetic instruction op is to push for the operands a and b:
\* the result in the integers reduced modulo the word modulus, and for DIV
\* and MOD the unsigned quotient and remainder, zero for a zero divisor.
ExactResult(op, a, b) ==
  CASE op = OP_ADD -> CHOOSE r \in 0..(WordModulus - 1) :
                        \E q \in 0..1 : a + b = q * WordModulus + r
    [] op = OP_SUB -> CHOOSE r \in 0..(WordModulus - 1) :
                        \E q \in -1..0 : a - b = q * WordModulus + r
    [] op = OP_MUL -> CHOOSE r \in 0..(WordModulus - 1) :
                        \E q \in 0..(WordModulus - 1) :
                          a * b = q * WordModulus + r
    [] op = OP_EXP -> PowerModWord(a, b)
    [] op = OP_DIV -> IF b = 0 THEN 0
                      ELSE CHOOSE q \in 0..a : q * b <= a /\ a < (q + 1) * b
    [] op = OP_MOD -> IF b = 0 THEN 0
                      ELSE CHOOSE r \in 0..(b - 1) :
                             \E q \in 0..a : a = q * b + r

\* The context is about to run an arithmetic instruction with its operands
\* on the stack and its gas at hand.
ArithmeticAttempt(ctx) ==
  /\ CurrentOpcode(ctx) \in ArithmeticOpcodes
  /\ Len(ctx.stack) >= 2
  /\ ctx.gasLeft >= GAS_COSTS(CurrentOpcode(ctx))

\* C39: for all operands that are words, ADD, SUB, MUL and EXP push the
\* exact result reduced modulo the word modulus, DIV and MOD push the
\* unsigned quotient and remainder, and zero when the divisor is zero; the
\* execution does not fail.
C39_ArithmeticIsExactModuloWord ==
  [][(steps' = steps + 1 /\ ArithmeticAttempt(vm.ctx)) =>
       /\ ~vm'.thrown
       /\ Len(vm'.ctx.stack) = Len(vm.ctx.stack) - 1
       /\ Peek(vm'.ctx, 0) =
            ExactResult(CurrentOpcode(vm.ctx), Peek(vm.ctx, 0), Peek(vm.ctx, 1))]_vars

\* A sum beyond the largest word, or a difference below zero, has been
\* pushed wrapped round.
C39_Witness ==
  /\ ~vm.thrown
  /\ Len(vm.ctx.code) = 5
  /\ vm.ctx.pc = 5
  /\ \/ vm.ctx.code = <<OP_PUSH1, 2, OP_PUSH1, WordModulus - 1, OP_ADD>>
        /\ vm.ctx.stack = <<1>>
     \/ vm.ctx.code = <<OP_PUSH1, 1, OP_PUSH1, 0, OP_SUB>>
        /\ vm.ctx.stack = <<WordModulus - 1>>

\* The storage of every address but a is the same in the worlds W and V.
SameStorageBut(W, V, a) ==
  \A x \in ((DOMAIN W.storages) \cup (DOMAIN V.storages)) \ {a} :
    /\ x \in DOMAIN W.storages
    /\ x \in DOMAIN V.storages
    /\ W.storages[x] = V.storages[x]

\* The storage of a differs between the worlds W and V.
StorageDiffers(W, V, a) ==
  \E k \in 0..(WordModulus - 1) : getStorage(W, a, k) # getStorage(V, a, k)

\* C40: a pass of Evm.execute changes the world in the storage slots of the
\* executing contract at most, and there through SSTORE only: balance,
\* nonce and code of every account and the storage of every other address
\* stay as they were.
C40_VmWritesOwnStorageOnly ==
  [][(steps' = steps + 1) =>
       /\ vm'.ctx.w.accounts = vm.ctx.w.accounts
       /\ SameStorageBut(vm.ctx.w, vm'.ctx.w, vm.ctx.env.address)
       /\ StorageDiffers(vm.ctx.w, vm'.ctx.w, vm.ctx.env.address) =>
            CurrentOpcode(vm.ctx) = OP_SSTORE
       /\ world' = vm'.ctx.w]_vars

\* The program that stores 42 in slot 0 has returned: the slot of the
\* contract holds it, the slot of the caller and the accounts are as before.
C40_Witness ==
  /\ last.op = "result"
  /\ last.res.success
  /\ vm.ctx.code = CodeStore
  /\ getStorage(pre, StoreContract, 0) = 0
  /\ getStorage(world, StoreContract, 0) = 42
  /\ getStorage(world, Alice, 0) = 7
  /\ world.accounts = pre.accounts

=============================================================================
